---- MODULE Spec2Model ----
(***************************************************************************)
(* The output checker of scipy_doctest (src/scipy_doctest/impl.py):        *)
(* DTChecker.check_output and the helpers it calls, as a state machine in  *)
(* which one step is one invocation (one stack frame) of check_output.     *)
(*                                                                         *)
(* Text is a sequence of characters.  The alphabet is small: the digits    *)
(* "1" "2" "3", the punctuation the checker looks at, blank and newline,   *)
(* and a few atoms that stand for a run of letters the code never looks    *)
(* inside ("array", "masked_array", "nan", "shape", "random", "R", "s",    *)
(* "p", "x", the ellipsis "...", the masked cell "--" and the object       *)
(* address "at 0x1f>").  Every string operation of the code is computed on *)
(* these sequences as Python computes it on the string.                    *)
(*                                                                         *)
(* eval is a tokenizer and a parser of the expressions these texts can     *)
(* form; its outcome is "ok" with a value, "exc" for an exception, or      *)
(* "unsup" for an expression outside the modelled subset (InDomain states  *)
(* that no reachable invocation evaluates one).  NumPy is the library from *)
(* 1.24 on: an array of a ragged nesting raises ValueError.  A number is   *)
(* an integer count of hundredths, atol counts units of 1e-8 and rtol      *)
(* units of 1e-2, and the closeness test is computed exactly.              *)
(***************************************************************************)
EXTENDS Integers, Sequences, FiniteSets, TLC

(***************************************************************************)
(* Bounds of the model.                                                    *)
(***************************************************************************)
\* the largest number of elements of a generated list, tuple or array text
MaxElems == 2
\* the depth of the Python stack left to check_output: a frame that recurses
\* at this depth gets RecursionError (sys.getrecursionlimit() in CPython)
RecursionLimit == 3

(***************************************************************************)
(* Python's str operations, on sequences of characters.                    *)
(***************************************************************************)
Whitespace == {" ", "\n"}

Digits == {"1", "2", "3"}

\* identifiers (each one atom); WordChars is what the regex class [\w\d_] matches
Names == {"array", "masked_array", "nan", "shape", "random", "_ignore",
          "R", "s", "p", "x"}

WordChars == Digits \cup Names

\* string literals (each one atom, with its quotes)
Strs == {"'a'", "'b'", "'c'"}

\* s[i:] with i counted from 1
Tail_(s, i) == IF i > Len(s) THEN <<>> ELSE SubSeq(s, i, Len(s))

\* s.startswith(p)
StartsWith(s, p) == Len(p) <= Len(s) /\ SubSeq(s, 1, Len(p)) = p

\* s.endswith(p)
EndsWith(s, p) == Len(p) <= Len(s) /\ SubSeq(s, Len(s) - Len(p) + 1, Len(s)) = p

\* s.find(p, i): the first position >= i where p occurs in s, 0 when none
RECURSIVE FindFrom(_, _, _)
FindFrom(s, p, i) ==
    IF i + Len(p) - 1 > Len(s) THEN 0
    ELSE IF SubSeq(s, i, i + Len(p) - 1) = p THEN i
    ELSE FindFrom(s, p, i + 1)

\* p in s
Contains(s, p) == FindFrom(s, p, 1) # 0

\* s.lstrip()
RECURSIVE LStrip(_)
LStrip(s) ==
    IF s # <<>> /\ Head(s) \in Whitespace THEN LStrip(Tail(s)) ELSE s

\* s.rstrip()
RECURSIVE RStrip(_)
RStrip(s) ==
    IF s # <<>> /\ s[Len(s)] \in Whitespace
    THEN RStrip(SubSeq(s, 1, Len(s) - 1)) ELSE s

\* s.strip()
Strip(s) == RStrip(LStrip(s))

\* the first word of s (s starts with a non-blank)
RECURSIVE WordLen(_)
WordLen(s) ==
    IF s = <<>> \/ Head(s) \in Whitespace THEN 0 ELSE 1 + WordLen(Tail(s))

\* s.split(): the maximal runs of non-blank characters
RECURSIVE SplitWS(_)
SplitWS(s) ==
    LET t == LStrip(s)
        n == WordLen(t)
    IN  IF t = <<>> THEN <<>>
        ELSE <<SubSeq(t, 1, n)>> \o SplitWS(Tail_(t, n + 1))

\* sep.join(parts)
RECURSIVE Join(_, _)
Join(sep, parts) ==
    IF parts = <<>> THEN <<>>
    ELSE IF Len(parts) = 1 THEN parts[1]
    ELSE parts[1] \o sep \o Join(sep, Tail(parts))

\* s.split(sep), sep not empty
RECURSIVE SplitOn(_, _)
SplitOn(s, sep) ==
    LET i == FindFrom(s, sep, 1)
    IN  IF i = 0 THEN <<s>>
        ELSE <<SubSeq(s, 1, i - 1)>> \o SplitOn(Tail_(s, i + Len(sep)), sep)

\* s.replace(old, new), old not empty
Replace(s, old, new) == Join(new, SplitOn(s, old))

\* s.count(c) for a single character c
RECURSIVE Count(_, _)
Count(s, c) ==
    IF s = <<>> THEN 0
    ELSE (IF Head(s) = c THEN 1 ELSE 0) + Count(Tail(s), c)

\* [x for x in parts if x]
RECURSIVE NonEmpty(_)
NonEmpty(parts) ==
    IF parts = <<>> THEN <<>>
    ELSE (IF Head(parts) = <<>> THEN <<>> ELSE <<Head(parts)>>) \o NonEmpty(Tail(parts))

\* s[1:-1]
Inner(s) == IF Len(s) <= 2 THEN <<>> ELSE SubSeq(s, 2, Len(s) - 1)

(***************************************************************************)
(* doctest.OutputChecker.check_output, the standard comparison `vanilla`,  *)
(* under the option flags DTConfig sets (impl.py:182): NORMALIZE_WHITESPACE*)
(* and ELLIPSIS.  The alphabet holds neither "True"/"False" nor the        *)
(* <BLANKLINE> marker, and once blanks are normalised the removal of       *)
(* blank-only lines changes nothing, so three comparisons remain.          *)
(***************************************************************************)
\* ' '.join(s.split())
Normalize(s) == Join(<<" ">>, SplitWS(s))

\* doctest._ellipsis_match: the loop over the middle pieces
RECURSIVE EllipsisMiddle(_, _, _, _)
EllipsisMiddle(ws, g, startpos, endpos) ==
    IF ws = <<>> THEN TRUE
    ELSE LET w == Head(ws)
             f == FindFrom(SubSeq(g, 1, endpos), w, startpos + 1)
         IN  IF f = 0 THEN FALSE
             ELSE EllipsisMiddle(Tail(ws), g, f - 1 + Len(w), endpos)

\* doctest._ellipsis_match(want, got); positions are Python's (from 0)
EllipsisMatch(w, g) ==
    IF ~Contains(w, <<"...">>) THEN w = g
    ELSE LET ws   == SplitOn(w, <<"...">>)
             frst == ws[1]
             last == ws[Len(ws)]
             okF  == frst = <<>> \/ StartsWith(g, frst)
             okL  == last = <<>> \/ EndsWith(g, last)
             startpos == IF frst # <<>> THEN Len(frst) ELSE 0
             endpos   == IF last # <<>> THEN Len(g) - Len(last) ELSE Len(g)
             ws1  == IF frst # <<>> THEN Tail(ws) ELSE ws
             ws2  == IF last # <<>> THEN SubSeq(ws1, 1, Len(ws1) - 1) ELSE ws1
         IN  /\ okF
             /\ okL
             /\ startpos <= endpos
             /\ EllipsisMiddle(ws2, g, startpos, endpos)

\* self.vanilla.check_output(want, got, optionflags)
VanillaCheck(w, g) ==
    \/ g = w
    \/ Normalize(g) = Normalize(w)
    \/ EllipsisMatch(Normalize(w), Normalize(g))

(***************************************************************************)
(* The repair helpers of impl.py.                                          *)
(***************************************************************************)
\* ", ".join(row.split()) for every row
RECURSIVE CommaRows(_)
CommaRows(rows) ==
    IF rows = <<>> THEN <<>>
    ELSE <<Join(<<",", " ">>, SplitWS(Head(rows)))>> \o CommaRows(Tail(rows))

\* "[" + row for every row
RECURSIVE BracketRows(_)
BracketRows(rows) ==
    IF rows = <<>> THEN <<>>
    ELSE <<(<<"[">> \o Head(rows))>> \o BracketRows(Tail(rows))

\* try_convert_printed_array(got): reinsert the commas of a printed array
try_convert_printed_array(got) ==
    IF ~StartsWith(got, <<"[">>) THEN got
    ELSE LET g1    == Inner(got)
             rows  == NonEmpty(SplitOn(g1, <<"[">>))
             rows2 == CommaRows(rows)
             rows3 == IF StartsWith(got, <<"[", "[">>) THEN BracketRows(rows2)
                      ELSE rows2
         IN  <<"[">> \o Join(<<",", " ">>, rows3) \o <<"]">>

\* has_masked(got)
has_masked(got) == Contains(got, <<"masked_array">>) /\ Contains(got, <<"--">>)

\* the length of the run of blanks of s that starts at position i
RECURSIVE BlankRun(_, _)
BlankRun(s, i) ==
    IF i <= Len(s) /\ s[i] \in Whitespace THEN 1 + BlankRun(s, i + 1) ELSE 0

\* the regex of try_split_shape_from_abbrv tried with its first group ending
\* before the comma at position a:  (.+),\s+shape=\(([\d\s,]+)\)(.+)
\* gives the position of the closing parenthesis of the shape, 0 when it fails
ShapeMatchAt(s, a) ==
    LET b == BlankRun(s, a + 1)
        o == a + 1 + b                    \* where "shape" must stand
        j == FindFrom(s, <<")">>, o + 3)  \* the first ")" after "shape=("
    IN  IF /\ a >= 2
           /\ a <= Len(s)
           /\ s[a] = ","
           /\ b >= 1
           /\ o + 2 <= Len(s)
           /\ SubSeq(s, o, o + 2) = <<"shape", "=", "(">>
           /\ j > o + 3
           /\ j < Len(s)
           /\ \A i \in (o + 3)..(j - 1) : s[i] \in Digits \cup Whitespace \cup {","}
        THEN j ELSE 0

\* the comma the greedy first group of the regex stops at: the last that matches
ShapeComma(s) ==
    LET As == {a \in 1..Len(s) : ShapeMatchAt(s, a) # 0}
    IN  IF As = {} THEN 0 ELSE CHOOSE a \in As : \A c \in As : c <= a

\* ''.join(s.split('...,'))
DropEllipsis(s) == Join(<<>>, SplitOn(s, <<"...", ",">>))

\* try_split_shape_from_abbrv(s_got): the text without its shape and ellipses,
\* and the shape split off ('' when there is none)
try_split_shape_from_abbrv(s_got) ==
    LET a == IF Contains(s_got, <<"shape", "=">>) THEN ShapeComma(s_got) ELSE 0
    IN  IF a # 0
        THEN LET j    == ShapeMatchAt(s_got, a)
                 o    == a + 1 + BlankRun(s_got, a + 1)
                 grp0 == SubSeq(s_got, 1, a - 1)
                 grp1 == SubSeq(s_got, o + 3, j - 1)
                 grp2 == Tail_(s_got, j + 1)
                 s1   == Replace(grp0 \o grp2, <<",", ",">>, <<",">>)
             IN  [text |-> DropEllipsis(s1), shape |-> <<"(">> \o grp1 \o <<")">>]
        ELSE [text |-> DropEllipsis(s_got), shape |-> <<>>]

(***************************************************************************)
(* Python's eval(text, ns) on the alphabet.  A value is a record           *)
(*   [k, n, f, e]: k its kind ("int", "float", "nan", "list", "tuple",     *)
(*   "array", "ellipsis", "func", "none"), n a number in hundredths (for a *)
(*   nan: 0 the object np.nan of the namespace, 1 a nan computed afresh),  *)
(*   f the name of a function, e the elements of a sequence or array.      *)
(* The result of an evaluation is [st, v] with st "ok", "exc" (any         *)
(* exception: the caller catches Exception) or "unsup": Python accepts the *)
(* text but the model does not cover the construct.  InDomain states that  *)
(* no reachable frame evaluates such a text.                               *)
(***************************************************************************)
Val(k, n, f, e) == [k |-> k, n |-> n, f |-> f, e |-> e]

NoVal == Val("none", 0, "", <<>>)

\* the names DTConfig puts into check_namespace that the alphabet can spell
NamespaceNames == {"nan", "array", "masked_array"}

NamespaceValue(a) ==
    IF a = "nan" THEN Val("nan", 0, "", <<>>) ELSE Val("func", 0, a, <<>>)

DigitVal(c) == CASE c = "1" -> 1 [] c = "2" -> 2 [] c = "3" -> 3 [] OTHER -> 0

\* the value of a run of digits
RECURSIVE IntOf(_)
IntOf(ds) ==
    IF ds = <<>> THEN 0
    ELSE 10 * IntOf(SubSeq(ds, 1, Len(ds) - 1)) + DigitVal(ds[Len(ds)])

\* comments removed: from "#" to the end of the line
RECURSIVE RemoveComments(_, _)
RemoveComments(s, inComment) ==
    IF s = <<>> THEN <<>>
    ELSE IF Head(s) = "\n" THEN <<"\n">> \o RemoveComments(Tail(s), FALSE)
    ELSE IF inComment \/ Head(s) = "#" THEN RemoveComments(Tail(s), TRUE)
    ELSE <<Head(s)>> \o RemoveComments(Tail(s), FALSE)

\* a newline outside every bracket that is not part of the trailing newlines
RECURSIVE TopLevelNewline(_, _)
TopLevelNewline(s, depth) ==
    IF s = <<>> THEN FALSE
    ELSE IF Head(s) \in {"[", "("} THEN TopLevelNewline(Tail(s), depth + 1)
    ELSE IF Head(s) \in {"]", ")"} THEN TopLevelNewline(Tail(s), depth - 1)
    ELSE IF Head(s) = "\n" /\ depth <= 0 THEN TRUE
    ELSE TopLevelNewline(Tail(s), depth)

\* eval passes over the lines at the end that are blank, as those of a
\* comment are once the comment is removed
RECURSIVE StripNewlines(_)
StripNewlines(s) ==
    IF s # <<>> /\ s[Len(s)] \in {"\n", " "}
    THEN StripNewlines(SubSeq(s, 1, Len(s) - 1))
    ELSE s

\* the length of the run of digits and points of s that starts at position i
RECURSIVE NumRun(_, _)
NumRun(s, i) ==
    IF i <= Len(s) /\ s[i] \in Digits \cup {"."} THEN 1 + NumRun(s, i + 1) ELSE 0

Tok(t, n, a) == [t |-> t, n |-> n, a |-> a]

\* the token of a run of digits and points: digits, digits "." digits, "." digits
NumberToken(r, nextIsName) ==
    LET dots == Count(r, ".")
        p    == FindFrom(r, <<".">>, 1)
        ip   == IF p = 0 THEN r ELSE SubSeq(r, 1, p - 1)
        fp   == IF p = 0 THEN <<>> ELSE Tail_(r, p + 1)
        frac == IF fp = <<>> THEN 0
                ELSE IF Len(fp) = 1 THEN 10 * DigitVal(fp[1])
                ELSE 10 * DigitVal(fp[1]) + DigitVal(fp[2])
    IN  IF Contains(r, <<".", ".", ".">>) THEN Tok("unsup", 0, "")
        ELSE IF dots >= 2 \/ r = <<".">>
        THEN (IF nextIsName THEN Tok("unsup", 0, "") ELSE Tok("bad", 0, ""))
        ELSE IF Len(ip) > 4 \/ Len(fp) > 2 THEN Tok("unsup", 0, "")
        ELSE IF dots = 0 THEN Tok("num", 100 * IntOf(ip), "int")
        ELSE Tok("num", 100 * IntOf(ip) + frac, "float")

\* the tokens of a text without comments; blanks and newlines separate tokens
RECURSIVE Tokenize(_, _)
Tokenize(s, i) ==
    IF i > Len(s) THEN <<>>
    ELSE LET c == s[i]
         IN  IF c \in Whitespace THEN Tokenize(s, i + 1)
             ELSE IF c \in Digits \cup {"."}
             THEN LET n  == NumRun(s, i)
                      j  == i + n + BlankRun(s, i + n)
                  IN  <<NumberToken(SubSeq(s, i, i + n - 1),
                                    j <= Len(s) /\ s[j] \in Names)>>
                      \o Tokenize(s, i + n)
             ELSE IF c \in Names THEN <<Tok("name", 0, c)>> \o Tokenize(s, i + 1)
             ELSE IF c = "=" /\ i < Len(s) /\ s[i + 1] = "="
             THEN <<Tok("unsup", 0, "")>> \o Tokenize(s, i + 2)
             ELSE IF c \in Strs THEN <<Tok("str", 0, c)>> \o Tokenize(s, i + 1)
             ELSE IF c \in {"[", "]", "(", ")", ",", "=", "--", "...", "{", "}", ":"}
             THEN <<Tok(c, 0, "")>> \o Tokenize(s, i + 1)
             ELSE <<Tok("bad", 0, "")>> \o Tokenize(s, i + 1)

Res(st, v, i) == [st |-> st, v |-> v, i |-> i]

\* the shape numpy gives a value: <<>> for a scalar, <<-1>> for a ragged
\* nesting (no array can be made of it without dtype=object)
RECURSIVE ShapeOf(_)
ShapeOf(v) ==
    IF v.k \notin {"list", "tuple", "array"} THEN <<>>
    ELSE IF v.e = <<>> THEN <<0>>
    ELSE LET s1 == ShapeOf(v.e[1])
         IN  IF s1 # <<-1>> /\ \A i \in 1..Len(v.e) : ShapeOf(v.e[i]) = s1
             THEN <<Len(v.e)>> \o s1
             ELSE <<-1>>

\* some leaf of v is no number (Ellipsis, a function, None): dtype=object
RECURSIVE HasObject(_)
HasObject(v) ==
    IF v.k \in {"list", "tuple", "array"}
    THEN \E i \in 1..Len(v.e) : HasObject(v.e[i])
    ELSE v.k \notin {"int", "float", "nan"}

\* some leaf of v is a float
RECURSIVE HasFloat(_)
HasFloat(v) ==
    IF v.k \in {"list", "tuple", "array"}
    THEN \E i \in 1..Len(v.e) : HasFloat(v.e[i])
    ELSE v.k \in {"float", "nan"}

\* np.asarray(v).dtype of a value that is not ragged (an empty array is float64)
DType(v) ==
    IF HasObject(v) THEN "object"
    ELSE IF HasFloat(v) \/ (\E i \in 1..Len(ShapeOf(v)) : ShapeOf(v)[i] = 0)
    THEN "float64"
    ELSE "int64"

\* the elements of an array of dtype float64: every int becomes a float
RECURSIVE AsFloat(_)
AsFloat(v) ==
    IF v.k \in {"list", "tuple", "array"}
    THEN Val("array", 0, "", [i \in 1..Len(v.e) |-> AsFloat(v.e[i])])
    ELSE IF v.k = "int" THEN Val("float", v.n, "", <<>>)
    ELSE v

\* the rows of an array are arrays
RECURSIVE AsRows(_)
AsRows(v) ==
    IF v.k \in {"list", "tuple", "array"}
    THEN Val("array", 0, "", [i \in 1..Len(v.e) |-> AsRows(v.e[i])])
    ELSE v

\* np.array(x) and np.ma.masked_array(x) of one positional argument, with
\* NumPy >= 1.24: a ragged nesting raises ValueError
MakeArray(x) ==
    IF x.k \notin {"list", "tuple", "array"}
    THEN [st |-> "unsup", v |-> NoVal]    \* a 0-d array
    ELSE IF ShapeOf(x) = <<-1>> THEN [st |-> "exc", v |-> NoVal]
    ELSE IF DType(x) = "float64" THEN [st |-> "ok", v |-> AsFloat(x)]
    ELSE [st |-> "ok", v |-> AsRows(x)]

RECURSIVE ParseList(_, _, _, _, _)
RECURSIVE ParseDict(_, _, _)
RECURSIVE ParseItem(_, _, _, _)
RECURSIVE ParseUnary(_, _)
RECURSIVE ParseAtom(_, _)
RECURSIVE ParseTrailers(_, _)

\* expr ("," expr)* [","] up to the token `closer` ("end": up to the end);
\* gives the elements in v.e and whether a comma was seen in v.n
ParseList(toks, i, closer, acc, comma) ==
    IF i > Len(toks)
    THEN (IF closer = "end" THEN Res("ok", Val("items", comma, "", acc), i)
          ELSE Res("exc", NoVal, i))
    ELSE IF toks[i].t = closer THEN Res("ok", Val("items", comma, "", acc), i)
    ELSE LET r == ParseUnary(toks, i)
         IN  IF r.st # "ok" THEN r
             ELSE IF r.i <= Len(toks) /\ toks[r.i].t = ","
             THEN ParseList(toks, r.i + 1, closer, Append(acc, r.v), 1)
             ELSE IF r.i > Len(toks) \/ toks[r.i].t = closer
             THEN ParseList(toks, r.i, closer, Append(acc, r.v), comma)
             ELSE IF toks[r.i].t = "unsup" \/ toks[r.i].t = "--"
             THEN Res("unsup", NoVal, r.i)
             ELSE Res("exc", NoVal, r.i)

\* a dict display from after its "{": items  'key': number  with commas.  A
\* dict is the sequence of its items in the order of insertion, each with
\* its key in f and its value in e.  The model covers dicts that are not
\* empty, of numbers under distinct string keys.
ParseDict(toks, i, acc) ==
    IF i > Len(toks) THEN Res("exc", NoVal, i)
    ELSE IF toks[i].t = "}"
    THEN (IF acc = <<>> THEN Res("unsup", NoVal, i)
          ELSE Res("ok", Val("dict", 0, "", acc), i + 1))
    ELSE IF toks[i].t = "str" /\ i < Len(toks) /\ toks[i + 1].t = ":"
    THEN ParseItem(toks, toks[i].a, acc, ParseUnary(toks, i + 2))
    ELSE IF toks[i].t \in {"num", "name", "str", "(", "[", "{", "...", "--", "unsup"}
    THEN Res("unsup", NoVal, i)
    ELSE Res("exc", NoVal, i)

\* the item of a dict display under the key, r the parse of its value
ParseItem(toks, key, acc, r) ==
    IF r.st # "ok" THEN r
    ELSE IF r.v.k \notin {"int", "float"} THEN Res("unsup", NoVal, r.i)
    ELSE IF \E j \in 1..Len(acc) : acc[j].f = key
    THEN Res("unsup", NoVal, r.i)
    ELSE IF r.i <= Len(toks) /\ toks[r.i].t = ","
    THEN ParseDict(toks, r.i + 1, Append(acc, Val("item", 0, key, <<r.v>>)))
    ELSE IF r.i <= Len(toks) /\ toks[r.i].t = "}"
    THEN ParseDict(toks, r.i, Append(acc, Val("item", 0, key, <<r.v>>)))
    ELSE IF r.i <= Len(toks) /\ toks[r.i].t \in {"unsup", "--"}
    THEN Res("unsup", NoVal, r.i)
    ELSE Res("exc", NoVal, r.i)

\* "--" operand: two unary minus signs
ParseUnary(toks, i) ==
    IF i <= Len(toks) /\ toks[i].t = "--"
    THEN LET r == ParseUnary(toks, i + 1)
         IN  IF r.st # "ok" THEN r
             ELSE IF r.v.k \in {"int", "float"} THEN r
             ELSE IF r.v.k = "nan" THEN Res("ok", Val("nan", 1, "", <<>>), r.i)
             ELSE IF r.v.k = "array"
             THEN (IF HasObject(r.v) THEN Res("exc", NoVal, r.i) ELSE r)
             ELSE Res("exc", NoVal, r.i)
    ELSE LET a == ParseAtom(toks, i)
         IN  IF a.st # "ok" THEN a ELSE ParseTrailers(toks, a)

ParseAtom(toks, i) ==
    IF i > Len(toks) THEN Res("exc", NoVal, i)
    ELSE LET t == toks[i]
         IN  CASE t.t = "num" -> Res("ok", Val(t.a, t.n, "", <<>>), i + 1)
               [] t.t = "name" ->
                    IF t.a \in NamespaceNames
                    THEN Res("ok", NamespaceValue(t.a), i + 1)
                    ELSE Res("exc", NoVal, i)
               [] t.t = "..." -> Res("ok", Val("ellipsis", 0, "", <<>>), i + 1)
               [] t.t = "[" ->
                    LET r == ParseList(toks, i + 1, "]", <<>>, 0)
                    IN  IF r.st # "ok" THEN r
                        ELSE Res("ok", Val("list", 0, "", r.v.e), r.i + 1)
               [] t.t = "(" ->
                    LET r == ParseList(toks, i + 1, ")", <<>>, 0)
                    IN  IF r.st # "ok" THEN r
                        ELSE IF Len(r.v.e) = 1 /\ r.v.n = 0
                        THEN Res("ok", r.v.e[1], r.i + 1)
                        ELSE Res("ok", Val("tuple", 0, "", r.v.e), r.i + 1)
               [] t.t = "{" -> ParseDict(toks, i + 1, <<>>)
               [] t.t = "str" -> Res("unsup", NoVal, i)
               [] t.t = "unsup" -> Res("unsup", NoVal, i)
               [] OTHER -> Res("exc", NoVal, i)

\* calls and subscripts that follow an atom
ParseTrailers(toks, a) ==
    IF a.i > Len(toks) THEN a
    ELSE IF toks[a.i].t = "("
    THEN \* a call: a keyword argument is a TypeError of array and masked_array
         IF a.i + 2 <= Len(toks) /\ toks[a.i + 1].t = "name" /\ toks[a.i + 2].t = "="
         THEN Res("exc", NoVal, a.i)
         ELSE LET r == ParseList(toks, a.i + 1, ")", <<>>, 0)
              IN  IF r.st # "ok" THEN r
                  ELSE IF a.v.k # "func" \/ Len(r.v.e) = 0 THEN Res("exc", NoVal, r.i)
                  ELSE IF Len(r.v.e) >= 2
                  THEN (IF a.v.f = "array" THEN Res("exc", NoVal, r.i)
                        ELSE Res("unsup", NoVal, r.i))
                  ELSE LET m == MakeArray(r.v.e[1])
                       IN  IF m.st # "ok" THEN Res(m.st, NoVal, r.i)
                           ELSE ParseTrailers(toks, Res("ok", m.v, r.i + 1))
    ELSE IF toks[a.i].t = "["
    THEN LET r == ParseList(toks, a.i + 1, "]", <<>>, 0)
         IN  IF r.st # "ok" THEN r
             ELSE IF a.v.k = "array" THEN Res("unsup", NoVal, r.i)
             ELSE IF /\ a.v.k \in {"list", "tuple"}
                     /\ Len(r.v.e) = 1
                     /\ r.v.n = 0
                     /\ r.v.e[1].k = "int"
                     /\ r.v.e[1].n \div 100 < Len(a.v.e)
             THEN ParseTrailers(toks, Res("ok", a.v.e[r.v.e[1].n \div 100 + 1], r.i + 1))
             ELSE Res("exc", NoVal, r.i)
    ELSE a

\* some element of the sequence v, at any depth, is a dict
RECURSIVE HasDict(_)
HasDict(v) ==
    v.k \in {"list", "tuple", "array"}
        /\ \E i \in 1..Len(v.e) : v.e[i].k = "dict" \/ HasDict(v.e[i])

\* the value of the expressions p that a text is: a tuple, or the only one
\* without a comma after it; the model covers a dict that is the whole
\* value, not one inside a sequence
ValueOf(p) ==
    IF HasDict(Val("tuple", 0, "", p.e)) /\ ~(Len(p.e) = 1 /\ p.n = 0)
    THEN [st |-> "unsup", v |-> NoVal]
    ELSE IF Len(p.e) = 1 /\ p.n = 0 /\ HasDict(p.e[1])
    THEN [st |-> "unsup", v |-> NoVal]
    ELSE IF Len(p.e) = 1 /\ p.n = 0 THEN [st |-> "ok", v |-> p.e[1]]
    ELSE [st |-> "ok", v |-> Val("tuple", 0, "", p.e)]

\* eval(text, dict(ns)): [st, v]
Eval(text) ==
    LET body == RemoveComments(text, FALSE)
        toks == Tokenize(body, 1)
        r    == ParseList(toks, 1, "end", <<>>, 0)
    IN  IF toks = <<>> THEN [st |-> "exc", v |-> NoVal]
        ELSE IF r.st = "exc" THEN [st |-> "exc", v |-> NoVal]
        ELSE IF r.st = "unsup" \/ TopLevelNewline(StripNewlines(body), 0)
        THEN [st |-> "unsup", v |-> NoVal]
        ELSE ValueOf(r.v)

(***************************************************************************)
(* DTConfig: the fields the checker reads.  atol is counted in units of    *)
(* 1e-8 and rtol in units of 1e-2, so the defaults of impl.py:114-115 are  *)
(* both 1.                                                                 *)
(***************************************************************************)
DefaultAtol == 1

DefaultRtol == 1

\* impl.py:171-173, spelled with the atom "random": '# random', '#random'
DefaultMarkers == {<<"#", " ", "random">>, <<"#", "random">>}

DTConfig(atol, rtol, strict_check, parse_namedtuples, rndm_markers) ==
    [atol |-> atol, rtol |-> rtol, strict_check |-> strict_check,
     parse_namedtuples |-> parse_namedtuples, rndm_markers |-> rndm_markers]

ConfigMarkers(config) == config.rndm_markers

\* DTChecker.__init__: the markers of the configuration and the private one
CheckerMarkers(config) == config.rndm_markers \cup {<<"#", " ", "_ignore">>}

(***************************************************************************)
(* DTChecker._do_check, with the NumPy operations it calls.  Numbers are   *)
(* exact (hundredths); NumPy computes the same comparison in float64.      *)
(***************************************************************************)
Abs(x) == IF x < 0 THEN -x ELSE x

IsSeq(v) == v.k \in {"list", "tuple", "array"}

Ragged(v) == ShapeOf(v) = <<-1>>

\* np.broadcast_shapes(s1, s2) exists: aligned at the right, the dimensions
\* are equal or one of them is 1
BroadcastOK(s1, s2) ==
    \A i \in 1..(IF Len(s1) < Len(s2) THEN Len(s1) ELSE Len(s2)) :
        LET a == s1[Len(s1) + 1 - i]
            b == s2[Len(s2) + 1 - i]
        IN  a = b \/ a = 1 \/ b = 1

\* np.isclose(a, b, atol, rtol, equal_nan=True) of two numbers:
\* |a - b| <= atol + rtol * |b|, both sides multiplied by 1e4
\* a variant of IsClose whose relative term is scaled by the first argument
IsCloseByFirst(a, b, atol, rtol) ==
    IF a.k = "nan" \/ b.k = "nan" THEN a.k = "nan" /\ b.k = "nan"
    ELSE 100 * Abs(a.n - b.n) - rtol * Abs(a.n) <= atol \div 10000

\* a variant of IsClose that gets stricter as rtol grows
IsCloseShrinking(a, b, atol, rtol) ==
    IF a.k = "nan" \/ b.k = "nan" THEN a.k = "nan" /\ b.k = "nan"
    ELSE 100 * Abs(a.n - b.n) * rtol <= atol \div 10000 + 50 * Abs(b.n)

IsClose(a, b, atol, rtol) ==
    IF a.k = "nan" \/ b.k = "nan" THEN a.k = "nan" /\ b.k = "nan"
    ELSE 100 * Abs(a.n - b.n) - rtol * Abs(b.n) <= atol \div 10000

\* np.isclose of two arrays that broadcast, all of it
RECURSIVE CloseAll(_, _, _, _)
CloseAll(w, g, atol, rtol) ==
    LET rw == Len(ShapeOf(w))
        rg == Len(ShapeOf(g))
    IN  IF rw > rg THEN \A i \in 1..Len(w.e) : CloseAll(w.e[i], g, atol, rtol)
        ELSE IF rw < rg THEN \A i \in 1..Len(g.e) : CloseAll(w, g.e[i], atol, rtol)
        ELSE IF rw = 0 THEN IsClose(w, g, atol, rtol)
        ELSE IF Len(w.e) = Len(g.e)
        THEN \A i \in 1..Len(w.e) : CloseAll(w.e[i], g.e[i], atol, rtol)
        ELSE IF Len(w.e) = 1
        THEN \A i \in 1..Len(g.e) : CloseAll(w.e[1], g.e[i], atol, rtol)
        ELSE \A i \in 1..Len(w.e) : CloseAll(w.e[i], g.e[1], atol, rtol)

\* np.allclose(want, got, atol=atol, rtol=rtol, equal_nan=True):
\* "True", "False", or "raise" (ragged, not numeric, or shapes that do not
\* broadcast)
allclose(w, g, atol, rtol) ==
    IF Ragged(w) \/ Ragged(g) THEN "raise"
    ELSE IF HasObject(w) \/ HasObject(g) THEN "raise"
    ELSE IF ~BroadcastOK(ShapeOf(w), ShapeOf(g)) THEN "raise"
    ELSE IF CloseAll(w, g, atol, rtol) THEN "True" ELSE "False"

\* the one element of an array of size 1
RECURSIVE OnlyLeaf(_)
OnlyLeaf(v) == IF IsSeq(v) THEN OnlyLeaf(v.e[1]) ELSE v

Size1(v) == ~Ragged(v) /\ \A i \in 1..Len(ShapeOf(v)) : ShapeOf(v)[i] = 1

\* a == b of two dicts: the same keys, with equal numbers under each
DictEq(a, b) ==
    /\ Len(a.e) = Len(b.e)
    /\ \A i \in 1..Len(a.e) :
          \E j \in 1..Len(b.e) :
              a.e[i].f = b.e[j].f /\ a.e[i].e[1].n = b.e[j].e[1].n

\* a == b of two objects that are no sequences
LeafEq(a, b) ==
    CASE a.k \in {"int", "float"} /\ b.k \in {"int", "float"} -> a.n = b.n
      [] a.k = "ellipsis" /\ b.k = "ellipsis" -> TRUE
      [] a.k = "func" /\ b.k = "func" -> a.f = b.f
      [] a.k = "str" /\ b.k = "str" -> a.f = b.f
      [] a.k = "dict" /\ b.k = "dict" -> DictEq(a, b)
      [] OTHER -> FALSE

\* `want == got` is true (a false result and an exception both go on to
\* np.allclose).  An array compares elementwise and is true in a condition
\* only when it has one element; a list or tuple compares its elements by
\* identity first, and np.nan of the namespace is one object.
RECURSIVE EqTrue(_, _)
EqTrue(w, g) ==
    IF w.k = "array" \/ g.k = "array"
    THEN Size1(w) /\ Size1(g) /\ LeafEq(OnlyLeaf(w), OnlyLeaf(g))
    ELSE IF IsSeq(w) \/ IsSeq(g)
    THEN /\ w.k = g.k
         /\ Len(w.e) = Len(g.e)
         /\ \A i \in 1..Len(w.e) :
               \/ (w.e[i].k = "nan" /\ g.e[i].k = "nan" /\ w.e[i].n = 0 /\ g.e[i].n = 0)
               \/ EqTrue(w.e[i], g.e[i])
    ELSE LeafEq(w, g)

\* a variant of do_check that never looks at the dtypes
do_check_any_dtype(want, got, strict_check, atol, rtol) ==
    IF EqTrue(want, got) THEN "True" ELSE allclose(want, got, atol, rtol)

\* DTChecker._do_check(want, got, strict_check): "True", "False" or "raise"
do_check(want, got, strict_check, atol, rtol) ==
    IF strict_check /\ (Ragged(want) \/ Ragged(got)) THEN "raise"
    ELSE IF strict_check /\ DType(want) # DType(got) THEN "False"
    ELSE IF EqTrue(want, got) THEN "True"
    ELSE allclose(want, got, atol, rtol)

\* iter(v) exists: a sequence gives its elements, a dict its keys
Iterable(v) == IsSeq(v) \/ v.k = "dict"

\* what the iteration over v gives
Elements(v) ==
    IF v.k = "dict" THEN [i \in 1..Len(v.e) |-> Val("str", 0, v.e[i].f, <<>>)]
    ELSE v.e

\* the pair at position i of zip_longest(a_want, a_got): None pads the shorter
Padded(v, i) == IF i <= Len(v.e) THEN Elements(v)[i] ELSE NoVal

\* impl.py:411-416: all(_do_check(w, g) for w, g in zip_longest(a_want, a_got)),
\* False on TypeError and ValueError
ZipCheck(a_want, a_got, strict_check, atol, rtol) ==
    /\ Iterable(a_want)
    /\ Iterable(a_got)
    /\ \A i \in 1..(IF Len(a_want.e) > Len(a_got.e) THEN Len(a_want.e) ELSE Len(a_got.e)) :
          do_check(Padded(a_want, i), Padded(a_got, i), strict_check, atol, rtol) = "True"

\* a variant of KindMismatch that lets a list pass for a tuple
KindsNeverDiffer(a_want, a_got) == FALSE

\* impl.py:400-402: both are a list or a tuple, and not both the same
KindMismatch(a_want, a_got) ==
    /\ a_want.k \in {"list", "tuple"}
    /\ a_got.k \in {"list", "tuple"}
    /\ a_want.k # a_got.k

\* impl.py:399-416: the comparison of the two reconstructed values
CompareValues(a_want, a_got, config) ==
    LET Fallback(r) ==
            IF r = "raise"
            THEN ZipCheck(a_want, a_got, config.strict_check, config.atol, config.rtol)
            ELSE r = "True"
    IN  IF KindMismatch(a_want, a_got) THEN FALSE
        ELSE Fallback(do_check(a_want, a_got, config.strict_check, config.atol, config.rtol))

(***************************************************************************)
(* try_convert_namedtuple (impl.py:226-239).                               *)
(***************************************************************************)
\* the length of the run of word characters of s that starts at position i
RECURSIVE WordRun(_, _)
WordRun(s, i) ==
    IF i <= Len(s) /\ s[i] \in WordChars THEN 1 + WordRun(s, i + 1) ELSE 0

\* the k fields  [\w\d_]+=(.+)  joined by ', ' and the closing '\)', matched
\* at position i of s with the backtracking of re: every group as long as the
\* rest allows.  [ok, g]: whether it matches, and the groups
RECURSIVE MatchFields(_, _, _)
MatchFields(s, i, k) ==
    LET n  == WordRun(s, i)
        v  == i + n + 1
        Fits(e) == IF k = 1 THEN e + 1 <= Len(s) /\ s[e + 1] = ")"
                   ELSE /\ e + 2 <= Len(s)
                        /\ s[e + 1] = ","
                        /\ s[e + 2] = " "
                        /\ MatchFields(s, e + 3, k - 1).ok
        Es == {e \in v..Len(s) : Fits(e)}
        e  == CHOOSE x \in Es : \A y \in Es : y <= x
    IN  IF n = 0 \/ i + n > Len(s) \/ s[i + n] # "=" \/ Es = {}
        THEN [ok |-> FALSE, g |-> <<>>]
        ELSE [ok |-> TRUE,
              g  |-> <<SubSeq(s, v, e)>> \o
                     (IF k = 1 THEN <<>> ELSE MatchFields(s, e + 3, k - 1).g)]

\* re.findall(regex, s)[0]: the groups of the leftmost match, which starts
\* with the word before the first "(" that the fields follow
FirstMatch(s, num) ==
    LET Qs == {q \in 2..Len(s) : /\ s[q] = "("
                                 /\ s[q - 1] \in WordChars
                                 /\ MatchFields(s, q + 1, num).ok}
        q  == CHOOSE x \in Qs : \A y \in Qs : x <= y
    IN  IF Qs = {} THEN [ok |-> FALSE, g |-> <<>>]
        ELSE MatchFields(s, q + 1, num)

\* the characters of a string, each as a string of its own
RECURSIVE Characters(_)
Characters(s) ==
    IF s = <<>> THEN <<>> ELSE <<(<<Head(s)>>)>> \o Characters(Tail(s))

\* an atom of the alphabet that stands for several characters
LongAtoms == {"array", "masked_array", "nan", "shape", "random", "_ignore",
              "--", "...", "at 0x1f>"}

\* try_convert_namedtuple(got): [st, text]; st is "exc" when no match is
\* found (grp[0] raises IndexError).  With one "=", grp[0] is a string and
\* join runs over its characters.
try_convert_namedtuple(got) ==
    LET num == Count(got, "=")
        m   == FirstMatch(Normalize(got), num)
    IN  IF num = 0 THEN [st |-> "ok", text |-> got]
        ELSE IF ~m.ok THEN [st |-> "exc", text |-> <<>>]
        ELSE IF num = 1 /\ \E i \in 1..Len(m.g[1]) : m.g[1][i] \in LongAtoms
        THEN [st |-> "unsup", text |-> <<>>]
        ELSE [st |-> "ok",
              text |-> <<"(">>
                       \o Join(<<",", " ">>,
                               IF num = 1 THEN Characters(m.g[1]) ELSE m.g)
                       \o <<")">>]

(***************************************************************************)
(* DTChecker.check_output (impl.py:306-416): one invocation.               *)
(* Frame gives what the invocation does: [rule, ret, want, got].  ret is   *)
(* "True" or "False" when it returns, "recurse" when it calls itself on    *)
(* the texts want and got, "unsup" when the model does not cover it.       *)
(***************************************************************************)
Return(rule, b) ==
    [rule |-> rule, ret |-> IF b THEN "True" ELSE "False", want |-> <<>>, got |-> <<>>]

Recurse(rule, w, g) == [rule |-> rule, ret |-> "recurse", want |-> w, got |-> g]

Unsupported == [rule |-> "unsup", ret |-> "unsup", want |-> <<>>, got |-> <<>>]

\* self.obj_pattern.search(got): 'at 0x[0-9a-fA-F]+>'
ObjPattern(got) == Contains(got, <<"at 0x1f>">>)

\* a variant of ExactRule: the checker without its first rule
NeverExact(want, got) == FALSE

\* impl.py:309: want == got
ExactRule(want, got) == want = got

\* a variant of MarkerRule: the checker without the rule of the markers
NeverMarked(want, config) == FALSE

\* impl.py:313: any(word in want for word in self.rndm_markers)
MarkerRule(want, config) == \E word \in CheckerMarkers(config) : Contains(want, word)

\* impl.py:309-329: the rule that returns True before any evaluation, in the
\* order of the code, or "none"
EarlyRule(want, got, config) ==
    IF ExactRule(want, got) THEN "exact"
    ELSE IF MarkerRule(want, config) THEN "marker"
    ELSE IF ObjPattern(got) THEN "address"
    ELSE IF StartsWith(LStrip(want), <<"#">>) THEN "comment"
    ELSE IF VanillaCheck(want, got) THEN "vanilla"
    ELSE "none"

\* impl.py:347-348
PrintedCond(s_want, s_got) ==
    /\ StartsWith(s_want, <<"[">>) /\ EndsWith(s_want, <<"]">>)
    /\ StartsWith(s_got, <<"[">>) /\ EndsWith(s_got, <<"]">>)

\* impl.py:356-357
NdimArray(s_want, s_got) ==
    /\ StartsWith(s_want, <<"array", "(", "[">>) /\ Contains(s_want, <<"...">>)
    /\ StartsWith(s_got, <<"array", "(", "[">>) /\ Contains(s_got, <<"...">>)

\* impl.py:359-367
AbbreviatedRepair(w_split, g_split) ==
    IF g_split.shape # <<>>
    THEN Recurse("abbreviated", w_split.text \o <<",", " ">> \o w_split.shape,
                 g_split.text \o <<",", " ">> \o g_split.shape)
    ELSE Recurse("abbreviated", w_split.text, g_split.text)

\* impl.py:391-397; got is converted first
NamedtupleRepair(got_again, want_again) ==
    IF got_again.st = "exc" THEN Return("namedtuple_raises", FALSE)
    ELSE IF got_again.st = "unsup" THEN Unsupported
    ELSE IF want_again.st = "exc" THEN Return("namedtuple_raises", FALSE)
    ELSE IF want_again.st = "unsup" THEN Unsupported
    ELSE Recurse("namedtuple", want_again.text, got_again.text)

\* impl.py:345-397 with s_want = want.strip() and s_got = got.strip()
Repair(want, got, config, s_want, s_got) ==
    IF PrintedCond(s_want, s_got)
    THEN Recurse("printed_array", try_convert_printed_array(s_want),
                 try_convert_printed_array(s_got))
    ELSE IF NdimArray(s_want, s_got)
    THEN AbbreviatedRepair(try_split_shape_from_abbrv(s_want),
                           try_split_shape_from_abbrv(s_got))
    ELSE IF has_masked(want) \/ has_masked(got)
    THEN Recurse("masked", Replace(want, <<"--">>, <<"nan">>),
                 Replace(got, <<"--">>, <<"nan">>))
    ELSE IF ~Contains(want, <<"=">>) /\ ~Contains(got, <<"=">>)
    THEN Return("no_equals_sign", FALSE)
    ELSE IF ~config.parse_namedtuples THEN Return("namedtuples_off", FALSE)
    ELSE NamedtupleRepair(try_convert_namedtuple(got), try_convert_namedtuple(want))

\* impl.py:341-397: the handler of an exception of eval
RepairChain(want, got, config) == Repair(want, got, config, Strip(want), Strip(got))

\* the outcome of eval that stands for "not run"
NotEvaluated == [st |-> "skipped", v |-> NoVal]

\* impl.py:339-340: eval(want), then eval(got) unless the first one raised
EvalBoth(want, got) ==
    LET Second(a_want) == [a_want |-> a_want,
                           a_got  |-> IF a_want.st = "ok" THEN Eval(got) ELSE NotEvaluated]
    IN  Second(Eval(want))

\* where an invocation goes after the two eval: "except", "compare", or
\* "unsup" when the model does not cover one of the texts
AfterEval(a_want, a_got) ==
    IF a_want.st = "exc" THEN "except"
    ELSE IF a_want.st = "unsup" THEN "unsup"
    ELSE IF a_got.st = "exc" THEN "except"
    ELSE IF a_got.st = "unsup" THEN "unsup"
    ELSE "compare"

\* impl.py:332-416: the invocation from eval on, the two outcomes of eval given
Reconstruct(want, got, config, ev, to) ==
    IF to = "except" THEN RepairChain(want, got, config)
    ELSE IF to = "unsup" THEN Unsupported
    ELSE Return("values", CompareValues(ev.a_want.v, ev.a_got.v, config))

FromEval(want, got, config, ev) ==
    Reconstruct(want, got, config, ev, AfterEval(ev.a_want, ev.a_got))

FromRule(want, got, config, early) ==
    IF early # "none" THEN Return(early, TRUE)
    ELSE FromEval(want, got, config, EvalBoth(want, got))

Frame(want, got, config) == FromRule(want, got, config, EarlyRule(want, got, config))

\* check_output(want, got) with `fuel` frames of stack left: "True", "False",
\* "RecursionError" when the stack runs out, "unsup"
RECURSIVE check_output(_, _, _, _)
check_output(want, got, config, fuel) ==
    LET f == Frame(want, got, config)
    IN  IF f.ret # "recurse" THEN f.ret
        ELSE IF fuel = 0 THEN "RecursionError"
        ELSE check_output(f.want, f.got, config, fuel - 1)

(***************************************************************************)
(* The texts and configurations the checker is run on.                     *)
(***************************************************************************)
\* the number literals of the generated texts
Lits == {<<"1">>, <<"2">>}

\* the element lists of at most MaxElems literals
ElemLists == UNION {[1..n -> Lits] : n \in 0..MaxElems}

NL == <<"\n">>

\* what the doctest runner captures: the repr or the print of a value,
\* terminated by a newline
ListText(es)    == <<"[">> \o Join(<<",", " ">>, es) \o <<"]">> \o NL
PrintedText(es) == <<"[">> \o Join(<<" ">>, es) \o <<"]">> \o NL
TupleText(es)   ==
    <<"(">> \o Join(<<",", " ">>, es) \o (IF Len(es) = 1 THEN <<",">> ELSE <<>>)
            \o <<")">> \o NL
ArrayText(es)   == <<"array", "(", "[">> \o Join(<<",", " ">>, es) \o <<"]", ")">> \o NL

Generated ==
    {ListText(es) : es \in ElemLists} \cup {PrintedText(es) : es \in ElemLists}
    \cup {TupleText(es) : es \in ElemLists} \cup {ArrayText(es) : es \in ElemLists}
    \cup {l \o NL : l \in Lits}

\* texts of the other kinds the checker has a rule for
Corpus ==
    { <<>>,
      <<"1", " ", " ", "#", " ", "random">> \o NL,
      <<"#", " ", "1">> \o NL,
      <<"<", "x", " ", "at 0x1f>">> \o NL,
      <<"x">> \o NL,
      <<"nan">> \o NL,
      <<"1", " ", "...", " ", "2">> \o NL,
      <<"[", "[", "1", " ", "2", "]", "\n", " ", "[", "1", " ", "1", "]", "]">> \o NL,
      <<"array", "(", "[", "1", ",", " ", "...", ",", " ", "2", "]", ")">> \o NL,
      <<"array", "(", "[", "1", ",", " ", "...", ",", " ", "2", "]", ",", " ",
        "shape", "=", "(", "3", ",", ")", ")">> \o NL,
      <<"array", "(", "[", "1", ",", " ", "...", ",", " ", "2", "]", ",", " ",
        "shape", "=", "(", "2", ",", ")", ")">> \o NL,
      <<"masked_array", "(", "[", "1", ",", " ", "--", "]", ")">> \o NL,
      <<"masked_array", "(", "[", "1", ".", ",", " ", "--", "]", ")">> \o NL,
      <<"R", "(", "s", "=", "1", ",", " ", "p", "=", "2", ")">> \o NL,
      <<"R", "(", "s", "=", "1", ".", ",", " ", "p", "=", "2", ")">> \o NL,
      <<"R", "(", "s", "=", "1", ")">> \o NL,
      <<"1", ".">> \o NL,
      <<"2", ".">> \o NL,
      <<"[", "1", ".", ",", " ", "2", ".", "]">> \o NL,
      <<"[", "1", ",", " ", "2", ".", "]">> \o NL,
      <<"[", "1", ".", " ", "2", ".", "]">> \o NL,
      <<"(", "1", ".", ",", " ", "2", ".", ")">> \o NL,
      <<"array", "(", "[", "1", ".", ",", " ", "2", ".", "]", ")">> \o NL,
      <<"R", "(", "s", "=", "1", "2", ")">> \o NL,
      <<"(", "1", "2", ",", ")">> \o NL,
      <<"array", "(", "[", "1", ",", " ", "...", ",", " ", "2", "]", ",", " ",
        "shape", "=", "(", "3", "2", "2", ",", ")", ")">> \o NL,
      <<"array", "(", "[", "1", ",", " ", "...", ",", " ", "2", "]", ",", " ",
        "shape", "=", "(", "3", "2", "3", ",", ")", ")">> \o NL,
      <<"{", "'a'", ":", " ", "1", ",", " ", "'b'", ":", " ", "2", "}">> \o NL,
      <<"{", "'a'", ":", " ", "2", ",", " ", "'b'", ":", " ", "1", "}">> \o NL,
      <<"{", "'b'", ":", " ", "2", ".", ",", " ", "'a'", ":", " ", "1", "}">> \o NL,
      <<"{", "'a'", ":", " ", "1", ",", " ", "'c'", ":", " ", "2", "}">> \o NL }

Texts == Generated \cup Corpus

\* tolerances: atol in units of 1e-8, rtol in units of 1e-2; the defaults,
\* a loose rtol, a loose atol, and both
Tolerances == {<<DefaultAtol, DefaultRtol>>, <<DefaultAtol, 50>>,
               <<100000000, DefaultRtol>>, <<100000000, 50>>}

\* the default configuration with each pair of tolerances, the strict check
\* with the tight ones, and each of the other two settings changed alone
Configs ==
    {DTConfig(t[1], t[2], FALSE, TRUE, DefaultMarkers) : t \in Tolerances}
    \cup {DTConfig(DefaultAtol, r, TRUE, TRUE, DefaultMarkers) : r \in {DefaultRtol, 50}}
    \cup {DTConfig(DefaultAtol, DefaultRtol, FALSE, FALSE, DefaultMarkers),
          DTConfig(DefaultAtol, DefaultRtol, FALSE, TRUE, {})}

(***************************************************************************)
(* The state machine: one step is one invocation of check_output.          *)
(***************************************************************************)
VARIABLES
    config,   \* the DTConfig of the checker
    want0,    \* the expected text of the example
    got0,     \* the text the example printed
    want,     \* the arguments of the invocation in progress
    got,
    a_want,   \* what eval made of them in this invocation
    a_got,
    stack,    \* the invocations below it: the rule by which each called the next
    pc,       \* "call": at impl.py:309; "compare": at 399; "except": at 342;
              \* "done": every invocation has returned
    result,   \* "none", then "True", "False" or "RecursionError"
    rule      \* the rule that gave the result

vars == <<config, want0, got0, want, got, a_want, a_got, stack, pc, result, rule>>

\* the checker is not in use
CheckerIdle ==
    /\ want0 = <<>>
    /\ got0 = <<>>
    /\ want = <<>>
    /\ got = <<>>
    /\ a_want = NotEvaluated
    /\ a_got = NotEvaluated
    /\ stack = <<>>
    /\ pc = "idle"
    /\ result = "none"
    /\ rule = "none"

(***************************************************************************)
(* The state of DTParser.get_examples and of the runner on one docstring.  *)
(***************************************************************************)
VARIABLES
    items,     \* what self.parse made of the docstring: texts and examples
    pos,       \* the number of items get_examples has been through
    keep_skipping_this_block,
    examples,  \* the examples get_examples has selected so far
    second,    \* this is the second docstring the parser was given
    prev_block,  \* keep_skipping_this_block when the docstring before ended
    rpos,      \* the number of examples the runner has been through
    tries,     \* the runner's counts for this docstring
    failures,
    outcomes,  \* per example: "skip", "success", "failure", "boom"
    shown,     \* per example: the runner printed a report of its failure
    had_unexpected_error,  \* the attribute the runner sets on the test
    history,   \* DTRunner.get_history(): (f, t) per docstring run
    dpc,       \* "parse", "run", "check", "done", "raised", "crashed"; "idle"
               \* when not in use
    nameerror_after_exception,  \* the runner's copy of the switch
    raise_on_error,  \* the runner is a DebugDTRunner
    exception  \* what the runner raised: its type, the example, the test

\* the runner's switches, set when it is made
flags == <<nameerror_after_exception, raise_on_error>>

dvars == <<items, pos, keep_skipping_this_block, examples, second, prev_block,
           rpos, tries, failures, outcomes, shown, had_unexpected_error,
           history, dpc, flags, exception>>

NoException == [type |-> "none", example |-> 0, test |-> 0]

\* parser and runner are not in use
DocIdle ==
    /\ items = <<>>
    /\ pos = 0
    /\ keep_skipping_this_block = FALSE
    /\ examples = <<>>
    /\ second = FALSE
    /\ prev_block = FALSE
    /\ rpos = 0
    /\ tries = 0
    /\ failures = 0
    /\ outcomes = <<>>
    /\ shown = <<>>
    /\ had_unexpected_error = FALSE
    /\ history = <<>>
    /\ dpc = "idle"
    /\ nameerror_after_exception = FALSE
    /\ raise_on_error = FALSE
    /\ exception = NoException

(***************************************************************************)
(* The state of find_doctests on a module.                                 *)
(***************************************************************************)
VARIABLES
    strategy,    \* [kind: "none", "api", "list", "other"; objs: the list]
    all_list,    \* the module's __all__: [has, names]
    skiplist,    \* config.skiplist
    fitems,      \* the objects to extract doctests from
    fnames,      \* their names
    fdone,       \* the number of them that have been looked into
    tests,       \* the tests found: [i: the item they come from, t: the test]
    fpc          \* "start", "extract", "done", "ValueError"; "idle"

fvars == <<strategy, all_list, skiplist, fitems, fnames, fdone, tests, fpc>>

\* find_doctests is not in use
FinderIdle ==
    /\ strategy = [kind |-> "none", objs |-> <<>>]
    /\ all_list = [has |-> FALSE, names |-> <<>>]
    /\ skiplist = {}
    /\ fitems = <<>>
    /\ fnames = <<>>
    /\ fdone = 0
    /\ tests = {}
    /\ fpc = "idle"

(***************************************************************************)
(* The state of temp_cwd around the runs of a list of tests.               *)
(***************************************************************************)
VARIABLES
    groups,      \* the tests: the local files each asks for, what its run does
    group,       \* the number of the test temp_cwd is called for
    cwd,         \* the working directory of the process
    saved_cwd,   \* the local `cwd` of temp_cwd
    tmpdir,      \* the local `tmpdir` of temp_cwd
    dirs,        \* the temporary directories that exist
    made,        \* the number of temporary directories made so far
    copied,      \* the number of local files copied for this test
    raising,     \* an exception is on its way out of the `with` block
    tpc,         \* "group", "user", "mpl": before np_errstate, the user context,
                 \* mpl is entered; "enter", "stage", "body", "finally", "left",
                 \* "raised": in temp_cwd and after it; "mpl_left", "user_left":
                 \* after the exit of mpl, of the user context; "next": after
                 \* the `with` blocks; "finished", "propagated": after the loop;
                 \* "idle" when not in use
    held,        \* the context managers that are entered, the innermost last
    printoptions,        \* the print options and error state of numpy
    saved_printoptions   \* what np_errstate saved of them

guards == <<held, printoptions, saved_printoptions>>

tvars == <<groups, group, cwd, saved_cwd, tmpdir, dirs, made, copied, raising,
           tpc, guards>>

\* temp_cwd is not in use
TempIdle ==
    /\ groups = <<>>
    /\ group = 0
    /\ cwd = <<"work", 0>>
    /\ saved_cwd = <<"none", 0>>
    /\ tmpdir = <<"none", 0>>
    /\ dirs = {}
    /\ made = 0
    /\ copied = 0
    /\ raising = FALSE
    /\ tpc = "idle"
    /\ held = <<>>
    /\ printoptions = "default"
    /\ saved_printoptions = "none"

(***************************************************************************)
(* The state of a DTConfig from its construction through a run: the        *)
(* attributes it defines and the mutable objects they and the components   *)
(* of the run refer to.                                                    *)
(***************************************************************************)
VARIABLES
    kwargs,   \* per field of DTConfig.__init__, the argument: "None" when it
              \* is left out, "given" a true value, "empty" a false one
    attrs,    \* per field, the attribute of the object: "undefined" or its value
    heap,     \* the sets and dicts that exist: the keys of each
    refs,     \* which of them each name refers to, 0 for none
    nrun,     \* the number of examples that have been run
    cpc       \* "new", "config", "checker", "globs", "run", "check", "eval",
              \* "done", "AttributeError"; "idle" when not in use

cvars == <<kwargs, attrs, heap, refs, nrun, cpc>>

\* no configuration is under construction
ConfigIdle ==
    /\ kwargs = <<>>
    /\ attrs = <<>>
    /\ heap = <<>>
    /\ refs = <<>>
    /\ nrun = 0
    /\ cpc = "idle"

\* the variables of the other components, which the checker leaves alone
others == <<dvars, fvars, tvars, cvars>>

OthersIdle == DocIdle /\ FinderIdle /\ TempIdle /\ ConfigIdle

Init ==
    /\ config \in Configs
    /\ want0 \in Texts
    /\ got0 \in Texts
    /\ want = want0
    /\ got = got0
    /\ a_want = NotEvaluated
    /\ a_got = NotEvaluated
    /\ stack = <<>>
    /\ pc = "call"
    /\ result = "none"
    /\ rule = "none"
    /\ OthersIdle

\* the invocation returns b by rule r; every caller returns what it got from
\* the call it made
ReturnBy(r, b) ==
    /\ pc' = "done"
    /\ result' = b
    /\ rule' = r
    /\ UNCHANGED <<config, want0, got0, want, got, a_want, a_got, stack>>
    /\ UNCHANGED others

\* impl.py:309-310: the texts are equal
ExactMatch ==
    /\ pc = "call"
    /\ EarlyRule(want, got, config) = "exact"
    /\ ReturnBy("exact", "True")

\* impl.py:313-314: want holds a marker of random output
RandomMarker ==
    /\ pc = "call"
    /\ EarlyRule(want, got, config) = "marker"
    /\ ReturnBy("marker", "True")

\* impl.py:317-318: got holds the address of an object
ObjectAddress ==
    /\ pc = "call"
    /\ EarlyRule(want, got, config) = "address"
    /\ ReturnBy("address", "True")

\* impl.py:321-322: want is a comment
CommentWanted ==
    /\ pc = "call"
    /\ EarlyRule(want, got, config) = "comment"
    /\ ReturnBy("comment", "True")

\* impl.py:325-329: the standard doctest checker accepts
VanillaMatch ==
    /\ pc = "call"
    /\ EarlyRule(want, got, config) = "vanilla"
    /\ ReturnBy("vanilla", "True")

\* impl.py:332-341: no rule on the text applies; eval both texts
Evaluate ==
    /\ pc = "call"
    /\ EarlyRule(want, got, config) = "none"
    /\ \E ev \in {EvalBoth(want, got)} :
        /\ a_want' = ev.a_want
        /\ a_got' = ev.a_got
        /\ pc' = AfterEval(ev.a_want, ev.a_got)
    /\ UNCHANGED <<config, want0, got0, want, got, stack, result, rule>>
    /\ UNCHANGED others

\* impl.py:399-416: both texts are values; compare them
CompareObjects ==
    /\ pc = "compare"
    /\ ReturnBy("values", IF CompareValues(a_want.v, a_got.v, config) THEN "True" ELSE "False")

\* the handler of the exception calls check_output on the repaired texts of
\* the frame f; without stack left the call raises RecursionError, which
\* nothing catches
CallAgain(f) ==
    /\ f.ret = "recurse"
    /\ IF Len(stack) < RecursionLimit
       THEN /\ want' = f.want
            /\ got' = f.got
            /\ a_want' = NotEvaluated
            /\ a_got' = NotEvaluated
            /\ stack' = Append(stack, f.rule)
            /\ pc' = "call"
            /\ UNCHANGED <<result, rule>>
       ELSE /\ pc' = "done"
            /\ result' = "RecursionError"
            /\ rule' = f.rule
            /\ UNCHANGED <<want, got, a_want, a_got, stack>>
    /\ UNCHANGED <<config, want0, got0>>
    /\ UNCHANGED others

\* impl.py:345-353: both texts are in brackets; reinsert commas and retry
RepairPrintedArray ==
    /\ pc = "except"
    /\ \E f \in {RepairChain(want, got, config)} :
        f.rule = "printed_array" /\ CallAgain(f)

\* impl.py:356-367: both texts are abbreviated arrays; drop the ellipsis
RepairAbbreviated ==
    /\ pc = "except"
    /\ \E f \in {RepairChain(want, got, config)} :
        f.rule = "abbreviated" /\ CallAgain(f)

\* impl.py:372-375: a masked array; replace '--' by nan
RepairMasked ==
    /\ pc = "except"
    /\ \E f \in {RepairChain(want, got, config)} :
        f.rule = "masked" /\ CallAgain(f)

\* impl.py:377-383: neither text has an "=": not a namedtuple
NoEqualsSign ==
    /\ pc = "except"
    /\ RepairChain(want, got, config).rule = "no_equals_sign"
    /\ ReturnBy("no_equals_sign", "False")

\* impl.py:385-386: namedtuples are not to be parsed
NamedtuplesOff ==
    /\ pc = "except"
    /\ RepairChain(want, got, config).rule = "namedtuples_off"
    /\ ReturnBy("namedtuples_off", "False")

\* impl.py:391-395: the conversion of a namedtuple raises
NamedtupleRaises ==
    /\ pc = "except"
    /\ RepairChain(want, got, config).rule = "namedtuple_raises"
    /\ ReturnBy("namedtuple_raises", "False")

\* impl.py:396-397: namedtuples folded to tuples; retry
RepairNamedtuple ==
    /\ pc = "except"
    /\ \E f \in {RepairChain(want, got, config)} :
        f.rule = "namedtuple" /\ CallAgain(f)

Next ==
    \/ ExactMatch
    \/ RandomMarker
    \/ ObjectAddress
    \/ CommentWanted
    \/ VanillaMatch
    \/ Evaluate
    \/ CompareObjects
    \/ RepairPrintedArray
    \/ RepairAbbreviated
    \/ RepairMasked
    \/ NoEqualsSign
    \/ NamedtuplesOff
    \/ NamedtupleRaises
    \/ RepairNamedtuple

Spec == Init /\ [][Next]_vars

\* every invocation that is reached is one the model computes
InDomain ==
    /\ pc # "unsup"
    /\ pc = "except" => RepairChain(want, got, config).rule # "unsup"

\* the state machine and the function check_output agree on every example
Agreement ==
    pc = "done" => result = check_output(want0, got0, config, RecursionLimit)

(***************************************************************************)
(* Properties of check_output.                                             *)
(***************************************************************************)
\* the leaves of a value, in order
RECURSIVE Leaves(_)
Leaves(v) ==
    IF ~IsSeq(v) THEN <<v>>
    ELSE IF v.e = <<>> THEN <<>>
    ELSE Leaves(Head(v.e)) \o Leaves([v EXCEPT !.e = Tail(v.e)])

\* a number, or a rectangular nesting of numbers
Numeric(v) == ~Ragged(v) /\ ~HasObject(v)

\* the invocation compared two numeric values of one shape, element with
\* element, and neither the kinds of the containers nor the dtypes decided
ComparedElementwise ==
    /\ pc = "done"
    /\ rule = "values"
    /\ Numeric(a_want.v)
    /\ Numeric(a_got.v)
    /\ ShapeOf(a_want.v) = ShapeOf(a_got.v)
    /\ ~KindMismatch(a_want.v, a_got.v)
    /\ config.strict_check => DType(a_want.v) = DType(a_got.v)

\* |w - g| <= atol + rtol * |g| in the units of the model, or w = g, or both nan
WithinTolerance(w, g, atol, rtol) ==
    IF w.k = "nan" \/ g.k = "nan" THEN w.k = "nan" /\ g.k = "nan"
    ELSE \/ w.n = g.n
         \/ 100 * Abs(w.n - g.n) <= atol \div 10000 + rtol * Abs(g.n)

\* the same with the relative term scaled by the expected value
WithinToleranceOfWant(w, g, atol, rtol) ==
    IF w.k = "nan" \/ g.k = "nan" THEN w.k = "nan" /\ g.k = "nan"
    ELSE \/ w.n = g.n
         \/ 100 * Abs(w.n - g.n) <= atol \div 10000 + rtol * Abs(w.n)

\* the configurations that differ from c by tolerances that are no smaller
Looser(c) ==
    {d \in Configs : /\ d.atol >= c.atol
                     /\ d.rtol >= c.rtol
                     /\ d.strict_check = c.strict_check
                     /\ d.parse_namedtuples = c.parse_namedtuples
                     /\ d.rndm_markers = c.rndm_markers}

\* the two values hold the same numbers in the same shape
SameNumbers(w, g) ==
    /\ ShapeOf(w) = ShapeOf(g)
    /\ \A i \in 1..Len(Leaves(w)) :
          Leaves(w)[i].k # "nan" /\ Leaves(g)[i].k # "nan" /\ Leaves(w)[i].n = Leaves(g)[i].n

\* C1: every recursive call of a repair is made on strictly simpler text, so
\* that no chain of repairs applies one strategy twice and none goes on
\* until the stack is exhausted.
C1_RepairsSimplify ==
    /\ \A i, j \in 1..Len(stack) : i # j => stack[i] # stack[j]
    /\ ~(pc = "except" /\ Len(stack) = RecursionLimit
           /\ RepairChain(want, got, config).ret = "recurse")

\* C2: check_output returns True or False for every pair of texts; no
\* exception escapes it.
C2_ReturnsBool == pc = "done" => result \in {"True", "False"}

\* C3: check_output(s, s) is True for every text s and every configuration,
\* by the rule of the exact match, which is applied first: nothing is
\* evaluated and nothing repaired.
C3_ExactMatchFirst ==
    (pc = "done" /\ want0 = got0)
        => /\ result = "True"
           /\ rule = "exact"
           /\ stack = <<>>
           /\ a_want = NotEvaluated

\* C3 happens: a text that is no Python expression is checked against itself.
C3_Witness ==
    /\ pc = "done"
    /\ want0 = got0
    /\ Eval(want0).st = "exc"
    /\ result = "True"

\* C4: when the expected text holds a configured marker of random output,
\* check_output is True whatever the actual text, and no text is evaluated.
C4_MarkerPasses ==
    (pc = "done" /\ \E word \in config.rndm_markers : Contains(want0, word))
        => /\ result = "True"
           /\ rule \in {"exact", "marker"}
           /\ a_want = NotEvaluated
           /\ a_got = NotEvaluated

\* C4 happens: a marked expected text passes an actual text that differs from
\* it and is no Python expression.
C4_Witness ==
    /\ pc = "done"
    /\ \E word \in config.rndm_markers : Contains(want0, word)
    /\ want0 # got0
    /\ Eval(got0).st = "exc"
    /\ rule = "marker"
    /\ result = "True"

\* C5: two numeric values compared element with element pass iff every pair
\* of corresponding elements is equal or has |want - got| <= atol + rtol *
\* |got|, nan equal to nan: the relative term is scaled by the actual value.
C5_Closeness ==
    ComparedElementwise
        => (result = "True"
              <=> \A i \in 1..Len(Leaves(a_want.v)) :
                     WithinTolerance(Leaves(a_want.v)[i], Leaves(a_got.v)[i],
                                     config.atol, config.rtol))

\* C5 happens: a pair passes that is within the tolerance scaled by the
\* actual value and would not be within it scaled by the expected value.
C5_Witness ==
    /\ ComparedElementwise
    /\ result = "True"
    /\ \E i \in 1..Len(Leaves(a_want.v)) :
          ~WithinToleranceOfWant(Leaves(a_want.v)[i], Leaves(a_got.v)[i],
                                 config.atol, config.rtol)

\* C6: a pair of texts that passes under (atol, rtol) passes under every
\* atol' >= atol and rtol' >= rtol, the rest of the configuration the same.
C6_ToleranceMonotone ==
    (pc = "done" /\ result = "True")
        => \A d \in Looser(config) :
              check_output(want0, got0, d, RecursionLimit) = "True"

\* C6 happens: a pair whose numbers differ passes by the tolerance, and
\* there is a configuration with a larger tolerance.
C6_Witness ==
    /\ ComparedElementwise
    /\ result = "True"
    /\ ~SameNumbers(a_want.v, a_got.v)
    /\ \E d \in Looser(config) : d # config

\* C7: the repair of a printed array leaves the meaning of a text whose
\* elements are separated by commas already: the repaired text evaluates to
\* the value the text evaluates to.
C7_RepairIdempotent ==
    (pc = "except" /\ RepairChain(want, got, config).rule = "printed_array")
        => \A t \in {Strip(want), Strip(got)} :
              Eval(t).st = "ok" => Eval(try_convert_printed_array(t)) = Eval(t)

\* C8: when the two texts evaluate to sequences of different lengths,
\* check_output is False.
C8_LengthMismatchFails ==
    (/\ pc = "done"
     /\ rule = "values"
     /\ IsSeq(a_want.v)
     /\ IsSeq(a_got.v)
     /\ Len(a_want.v.e) # Len(a_got.v.e))
        => result = "False"

\* C9: when one text evaluates to a list and the other to a tuple,
\* check_output is False, also when the elements are equal.
C9_ListAgainstTuple ==
    (/\ pc = "done"
     /\ rule = "values"
     /\ {a_want.v.k, a_got.v.k} = {"list", "tuple"})
        => result = "False"

\* C9 happens: a list and a tuple of the same elements, not empty.
C9_Witness ==
    /\ pc = "done"
    /\ rule = "values"
    /\ {a_want.v.k, a_got.v.k} = {"list", "tuple"}
    /\ a_want.v.e = a_got.v.e
    /\ a_want.v.e # <<>>
    /\ result = "False"

\* C10: with strict_check, two texts whose values hold the same numbers with
\* different dtypes fail; without strict_check the same pair passes.
C10_StrictDType ==
    (/\ pc = "done"
     /\ rule = "values"
     /\ stack = <<>>
     /\ config.strict_check
     /\ Numeric(a_want.v)
     /\ Numeric(a_got.v)
     /\ ~KindMismatch(a_want.v, a_got.v)
     /\ SameNumbers(a_want.v, a_got.v)
     /\ DType(a_want.v) # DType(a_got.v))
        => /\ result = "False"
           /\ check_output(want0, got0, [config EXCEPT !.strict_check = FALSE],
                           RecursionLimit) = "True"

\* C10 happens: an integer is expected and the float of the same value is
\* printed, under strict_check.
C10_Witness ==
    /\ pc = "done"
    /\ rule = "values"
    /\ stack = <<>>
    /\ config.strict_check
    /\ a_want.v.k = "int"
    /\ a_got.v.k = "float"
    /\ a_want.v.n = a_got.v.n
    /\ result = "False"

\* the text of the plain tuple of the field values of an attribute-style
\* repr Name(f1=v1, ..., fn=vn), as the interpreter prints that tuple
PlainTupleOf(text) ==
    LET m == FirstMatch(Normalize(text), Count(text, "="))
    IN  <<"(">> \o Join(<<",", " ">>, m.g)
              \o (IF Len(m.g) = 1 THEN <<",">> ELSE <<>>) \o <<")">> \o NL

\* the text is an attribute-style repr whose fields can be extracted
IsNamedtupleText(text) ==
    /\ Count(text, "=") > 0
    /\ FirstMatch(Normalize(text), Count(text, "=")).ok

\* C11: with parse_namedtuples, an attribute-style repr on either side
\* passes against the plain tuple of the same field values.
C11_NamedtupleAsTuple ==
    (/\ pc = "done"
     /\ config.parse_namedtuples
     /\ \/ IsNamedtupleText(got0) /\ want0 = PlainTupleOf(got0)
        \/ IsNamedtupleText(want0) /\ got0 = PlainTupleOf(want0))
        => result = "True"

(***************************************************************************)
(* DTParser.get_examples and the runner on the examples it selects.        *)
(*                                                                         *)
(* self.parse yields a text, then for every example the example and the    *)
(* text after it; a text may be empty.  An example is its source (without  *)
(* the directive comment), the options its directives set, the output it   *)
(* wants, what running it does and what it prints.  The examples modelled  *)
(* announce no traceback (exc_msg is None).                                *)
(***************************************************************************)
MaxExamples == 2

Text(t) ==
    [kind |-> "text", text |-> t, source |-> <<>>, SKIPBLOCK |-> "absent",
     SKIP |-> "absent", want |-> <<>>, run |-> "none", got |-> <<>>, at |-> 0,
     lineno |-> 0]

Example(source, skipblock, skip, wanted, run, printed) ==
    [kind |-> "example", text |-> <<>>, source |-> source \o NL,
     SKIPBLOCK |-> skipblock, SKIP |-> skip, want |-> wanted, run |-> run,
     got |-> printed, at |-> 0, lineno |-> 0]

\* the parser's configuration: impl.py:187-198 with one stopword of the
\* default set and one pseudocode word, as tests/test_skipmarkers.py sets
stopwords == {<<".show">>}

pseudocode == {<<"oops">>}

One == <<"1">> \o NL

Two == <<"2">> \o NL

Plain == <<"x">>

\* the texts between examples: nothing, or a blank line
Between == {<<>>, NL}

ExampleItems ==
    { Example(Plain, "absent", "absent", Two, "ok", One),
      Example(Plain, "absent", "absent", One, "raise", <<>>),
      Example(Plain, "True", "absent", One, "raise", <<>>),
      Example(Plain, "False", "absent", One, "ok", One),
      Example(Plain, "absent", "True", One, "raise", <<>>),
      Example(<<"oops">>, "absent", "absent", One, "raise", <<>>),
      Example(<<"x", ".show">>, "absent", "absent", Two, "ok", One),
      Example(<<"x", ".show">>, "absent", "absent", Two, "NameError", <<>>),
      Example(<<"x", " ", " ", "#", " ", "random">>, "absent", "absent", Two,
              "ok", One),
      Example(<<"x", " ", " ", "#", " ", "random">>, "absent", "absent", Two,
              "raise", <<>>),
      Example(Plain, "absent", "absent",
              <<"1", " ", " ", "#", " ", "random">> \o NL, "ok", Two),
      Example(Plain, "absent", "absent",
              <<"1", " ", " ", "#", " ", "random">> \o NL, "raise", <<>>),
      Example(<<"oops", ".show">>, "absent", "absent", Two, "raise", <<>>) }

\* what self.parse returns for a docstring: the text ts[0], then every
\* example es[i] and the text ts[i] after it; an example is on its own line
Parsed(ts, es) ==
    [i \in 1..(2 * Len(es) + 1) |->
        IF i % 2 = 1 THEN Text(ts[i \div 2])
        ELSE [es[i \div 2] EXCEPT !.lineno = i \div 2]]

\* docstrings of one example that prints, for the rules of the checker
Checked ==
    { <<One, One>>,
      <<<<>>, <<"<", "x", " ", "at 0x1f>">> \o NL>>,
      <<<<"#", " ", "1">> \o NL, <<>>>>,
      <<<<"(", "1", ",", " ", "2", ")">> \o NL,
        <<"R", "(", "s", "=", "1", "2", ")">> \o NL>>,
      <<<<>>, Two>>,
      <<<<>>, <<"R", "(", "s", "=", "1", ")">> \o NL>>,
      <<<<>>, <<"array", "(", "[", "1", ",", " ", "...", ",", " ", "2", "]", ",",
                " ", "shape", "=", "(", "3", ",", ")", ")">> \o NL>>,
      <<<<"[", "2", "]">> \o NL, <<"[", "2", " ", "2", "]">> \o NL>>,
      <<<<"array", "(", "[", "1", ",", " ", "...", ",", " ", "2", "]", ",", " ",
          "shape", "=", "(", "3", ",", ")", ")">> \o NL,
        <<"array", "(", "[", "1", ",", " ", "...", ",", " ", "2", "]", ")">> \o NL>>,
      <<<<"masked_array", "(", "[", "1", ",", " ", "--", "]", ")">> \o NL,
        <<"masked_array", "(", "[", "1", ".", ",", " ", "--", "]", ")">> \o NL>> }

CheckedDocstrings ==
    {<<Text(<<>>), Example(Plain, "absent", "absent", c[1], "ok", c[2]),
       Text(<<>>)>> : c \in Checked}

\* the docstring of tests/test_skipmarkers.py:185-203, and a plain one
FollowUps ==
    { <<Text(<<"x">> \o NL),
        Example(Plain, "True", "absent", <<>>, "raise", <<>>), Text(<<>>),
        Example(Plain, "absent", "absent", <<>>, "NameError", <<>>), Text(NL),
        Example(Plain, "absent", "absent", One, "ok", One), Text(NL)>>,
      <<Text(<<>>), Example(Plain, "absent", "absent", One, "ok", One),
        Text(<<>>)>> }

AnyText(text) == TRUE

\* impl.py:585: `if example:` on a text
NonEmptyText(text) == text # <<>>

\* impl.py:589: `SKIPBLOCK in example.options or keep_skipping_this_block`
InBlock(example, keep) == example.SKIPBLOCK # "absent" \/ keep

\* impl.py:595, 600, 605: `any(word in example.source for word in words)`
AnyWordIn(source, words) == \E word \in words : Contains(source, word)

NeverPseudocode(source) == FALSE

IsPseudocode(source) == AnyWordIn(source, pseudocode)

ReplaceOutput(wanted) == <<" ", " ", "#", " ", "_ignore">> \o NL

\* impl.py:603, 608: `example.want += "  # _ignore\n"`
IgnoreOutput(wanted) == wanted \o <<" ", " ", "#", " ", "_ignore">> \o NL

SkipsIgnored(example) ==
    example.SKIP = "True" \/ Contains(example.want, <<"#", " ", "_ignore">>)

\* the runner's test of an example's options against SKIP
OptionSKIP(example) == example.SKIP = "True"

\* the configuration of the checker the runner makes: impl.py:447-455
RunnerConfig == DTConfig(DefaultAtol, DefaultRtol, FALSE, TRUE, DefaultMarkers)

NamedtuplesOffConfig ==
    DTConfig(DefaultAtol, DefaultRtol, FALSE, FALSE, DefaultMarkers)

NoMarkersConfig == DTConfig(DefaultAtol, DefaultRtol, FALSE, TRUE, {})

ReportsAlways(run, had_error, show_all) == TRUE

\* impl.py:471-483: whether report_unexpected_exception prints the report;
\* show_all is self.nameerror_after_exception
ReportsException(run, had_error, show_all) ==
    IF ~show_all
    THEN IF ~had_error THEN TRUE
         ELSE run # "NameError"
    ELSE TRUE

\* impl.py:476-477: the attribute is set on the test only when the switch
\* is off
HadUnexpectedError(had_error, show_all) == IF ~show_all THEN TRUE ELSE had_error

CountedIfReported(outcome, reported) ==
    outcome \in {"failure", "boom"} /\ reported

\* the reports of DTRunner (impl.py:471-487) return to the loop of the
\* examples, which counts a failure for either outcome, reported or not
Counted(outcome, reported) == outcome \in {"failure", "boom"}

NeverRaises(debug, type, n, t) == NoException

\* impl.py:512-520: the reports of DebugDTRunner raise, with the example
\* and the test; those of DTRunner return
Raised(debug, type, n, t) ==
    IF debug THEN [type |-> type, example |-> n, test |-> t] ELSE NoException

\* the docstrings a run starts on: one whose examples are chosen freely, or
\* one of those for the rules of the checker
DocStart ==
    /\ CheckerIdle
    /\ ConfigIdle
    /\ FinderIdle
    /\ TempIdle
    /\ pos = 0
    /\ keep_skipping_this_block = FALSE
    /\ examples = <<>>
    /\ second = FALSE
    /\ prev_block = FALSE
    /\ rpos = 0
    /\ tries = 0
    /\ failures = 0
    /\ outcomes = <<>>
    /\ shown = <<>>
    /\ had_unexpected_error = FALSE
    /\ history = <<>>
    /\ exception = NoException
    /\ dpc = "parse"

\* get_doctest and run on a docstring
DocInit ==
    /\ CheckerIdle
    /\ ConfigIdle
    /\ FinderIdle
    /\ TempIdle
    /\ \/ /\ config = RunnerConfig
          /\ \E n \in 0..MaxExamples :
                \E ts \in [0..n -> Between], es \in [1..n -> ExampleItems] :
                    items = Parsed(ts, es)
       \/ /\ config \in {RunnerConfig, NamedtuplesOffConfig}
          /\ items \in CheckedDocstrings
    /\ pos = 0
    /\ keep_skipping_this_block = FALSE
    /\ examples = <<>>
    /\ second = FALSE
    /\ prev_block = FALSE
    /\ rpos = 0
    /\ tries = 0
    /\ failures = 0
    /\ outcomes = <<>>
    /\ shown = <<>>
    /\ had_unexpected_error = FALSE
    /\ history = <<>>
    /\ dpc = "parse"
    /\ nameerror_after_exception = FALSE
    /\ raise_on_error = FALSE
    /\ exception = NoException

\* the same with every setting of the runner's switches (impl.py:128,
\* frontend.py:239-242), and with the switches left alone and no random
\* markers (impl.py:113)
RunInit ==
    /\ DocStart
    /\ nameerror_after_exception \in BOOLEAN
    /\ raise_on_error \in BOOLEAN
    /\ \/ /\ config \in {RunnerConfig, NoMarkersConfig}
          /\ config = NoMarkersConfig
                => ~nameerror_after_exception /\ ~raise_on_error
          /\ \E n \in 0..MaxExamples :
                \E ts \in [0..n -> Between], es \in [1..n -> ExampleItems] :
                    items = Parsed(ts, es)
       \/ /\ config \in {RunnerConfig, NamedtuplesOffConfig}
          /\ items \in CheckedDocstrings

\* impl.py:584-587: an intervening text
ParseText ==
    /\ dpc = "parse"
    /\ pos < Len(items)
    /\ items[pos + 1].kind = "text"
    /\ keep_skipping_this_block' =
           IF NonEmptyText(items[pos + 1].text) THEN FALSE
           ELSE keep_skipping_this_block
    /\ pos' = pos + 1
    /\ UNCHANGED <<items, examples, second, prev_block, rpos, tries, failures,
                   outcomes, shown, had_unexpected_error, history, dpc>>
    /\ UNCHANGED <<vars, fvars, tvars, cvars>>
    /\ UNCHANGED <<flags, exception>>

\* impl.py:589-609: an example
ParseExample ==
    /\ dpc = "parse"
    /\ pos < Len(items)
    /\ items[pos + 1].kind = "example"
    /\ LET example == items[pos + 1]
           block == InBlock(example, keep_skipping_this_block)
           want1 == IF AnyWordIn(example.source, config.rndm_markers)
                    THEN IgnoreOutput(example.want) ELSE example.want
           want2 == IF AnyWordIn(example.source, stopwords)
                    THEN IgnoreOutput(want1) ELSE want1
       IN  /\ keep_skipping_this_block' = block
           /\ examples' = Append(examples,
                  [example EXCEPT
                      !.SKIP = IF block \/ IsPseudocode(example.source)
                               THEN "True" ELSE @,
                      !.want = want2,
                      !.at = pos + 1])
    /\ pos' = pos + 1
    /\ UNCHANGED <<items, second, prev_block, rpos, tries, failures, outcomes,
                   shown, had_unexpected_error, history, dpc>>
    /\ UNCHANGED <<vars, fvars, tvars, cvars>>
    /\ UNCHANGED <<flags, exception>>

\* impl.py:610: get_examples returns; the runner starts on the examples
ReturnExamples ==
    /\ dpc = "parse"
    /\ pos = Len(items)
    /\ dpc' = "run"
    /\ UNCHANGED <<items, pos, keep_skipping_this_block, examples, second,
                   prev_block, rpos, tries, failures, outcomes, shown,
                   had_unexpected_error, history>>
    /\ UNCHANGED <<vars, fvars, tvars, cvars>>
    /\ UNCHANGED <<flags, exception>>

\* the runner passes over an example whose options set SKIP
SkipExample ==
    /\ dpc = "run"
    /\ rpos < Len(examples)
    /\ OptionSKIP(examples[rpos + 1])
    /\ rpos' = rpos + 1
    /\ outcomes' = Append(outcomes, "skip")
    /\ shown' = Append(shown, FALSE)
    /\ UNCHANGED <<items, pos, keep_skipping_this_block, examples, second,
                   prev_block, tries, failures, had_unexpected_error, history,
                   dpc>>
    /\ UNCHANGED <<vars, fvars, tvars, cvars>>
    /\ UNCHANGED <<flags, exception>>

\* the runner executes an example that does not raise, and calls
\* check_output on what the example wants and what it printed
RunExample ==
    /\ dpc = "run"
    /\ rpos < Len(examples)
    /\ ~OptionSKIP(examples[rpos + 1])
    /\ examples[rpos + 1].run = "ok"
    /\ tries' = tries + 1
    /\ want0' = examples[rpos + 1].want
    /\ got0' = examples[rpos + 1].got
    /\ want' = examples[rpos + 1].want
    /\ got' = examples[rpos + 1].got
    /\ pc' = "call"
    /\ dpc' = "check"
    /\ UNCHANGED <<config, a_want, a_got, stack, result, rule>>
    /\ UNCHANGED <<items, pos, keep_skipping_this_block, examples, second,
                   prev_block, rpos, failures, outcomes, shown,
                   had_unexpected_error, history>>
    /\ UNCHANGED <<fvars, tvars, cvars>>
    /\ UNCHANGED <<flags, exception>>

\* check_output returns to the runner, which reports the outcome; a
\* RecursionError of the checker ends the run
CheckReturns ==
    /\ dpc = "check"
    /\ pc = "done"
    /\ IF result = "RecursionError"
       THEN /\ dpc' = "crashed"
            /\ UNCHANGED <<rpos, failures, outcomes, shown, exception>>
       ELSE LET outcome == IF result = "True" THEN "success" ELSE "failure"
                exc == IF outcome = "failure"
                       THEN Raised(raise_on_error, "DocTestFailure", rpos + 1,
                                   IF second THEN 2 ELSE 1)
                       ELSE NoException
            IN  /\ outcomes' = Append(outcomes, outcome)
                /\ shown' = Append(shown, outcome = "failure")
                /\ exception' = exc
                /\ IF exc # NoException
                   THEN /\ dpc' = "raised"
                        /\ UNCHANGED <<rpos, failures>>
                   ELSE /\ dpc' = "run"
                        /\ rpos' = rpos + 1
                        /\ failures' = IF Counted(outcome, outcome = "failure")
                                       THEN failures + 1 ELSE failures
    /\ want0' = <<>>
    /\ got0' = <<>>
    /\ want' = <<>>
    /\ got' = <<>>
    /\ a_want' = NotEvaluated
    /\ a_got' = NotEvaluated
    /\ stack' = <<>>
    /\ pc' = "idle"
    /\ result' = "none"
    /\ rule' = "none"
    /\ UNCHANGED <<config, items, pos, keep_skipping_this_block, examples,
                   second, prev_block, tries, had_unexpected_error, history>>
    /\ UNCHANGED <<fvars, tvars, cvars>>
    /\ UNCHANGED flags

\* the runner executes an example that raises, or does not compile;
\* impl.py:471-483 reports it
UnexpectedException ==
    /\ dpc = "run"
    /\ rpos < Len(examples)
    /\ ~OptionSKIP(examples[rpos + 1])
    /\ examples[rpos + 1].run # "ok"
    /\ LET reported == ReportsException(examples[rpos + 1].run,
                                        had_unexpected_error,
                                        nameerror_after_exception)
           exc == Raised(raise_on_error, "UnexpectedException", rpos + 1,
                         IF second THEN 2 ELSE 1)
       IN  /\ outcomes' = Append(outcomes, "boom")
           /\ shown' = Append(shown, reported)
           /\ had_unexpected_error' =
                  HadUnexpectedError(had_unexpected_error,
                                     nameerror_after_exception)
           /\ tries' = tries + 1
           /\ exception' = exc
           /\ IF exc # NoException
              THEN /\ dpc' = "raised"
                   /\ UNCHANGED <<rpos, failures>>
              ELSE /\ dpc' = dpc
                   /\ rpos' = rpos + 1
                   /\ failures' = IF Counted("boom", reported)
                                  THEN failures + 1 ELSE failures
    /\ UNCHANGED <<items, pos, keep_skipping_this_block, examples, second,
                   prev_block, history>>
    /\ UNCHANGED <<vars, fvars, tvars, cvars>>
    /\ UNCHANGED flags

\* the runner records (f, t) under the name of the docstring
RecordOutcome ==
    /\ dpc = "run"
    /\ rpos = Len(examples)
    /\ history' = Append(history, <<failures, tries>>)
    /\ dpc' = "done"
    /\ UNCHANGED <<items, pos, keep_skipping_this_block, examples, second,
                   prev_block, rpos, tries, failures, outcomes, shown,
                   had_unexpected_error>>
    /\ UNCHANGED <<vars, fvars, tvars, cvars>>
    /\ UNCHANGED <<flags, exception>>

\* the same parser and runner are given another docstring: impl.py:576-581
NextDocstring ==
    /\ dpc = "done"
    /\ ~second
    /\ items' \in FollowUps
    /\ pos' = 0
    /\ prev_block' = keep_skipping_this_block
    /\ keep_skipping_this_block' = FALSE
    /\ examples' = <<>>
    /\ second' = TRUE
    /\ rpos' = 0
    /\ tries' = 0
    /\ failures' = 0
    /\ outcomes' = <<>>
    /\ shown' = <<>>
    /\ had_unexpected_error' = FALSE
    /\ dpc' = "parse"
    /\ UNCHANGED history
    /\ UNCHANGED <<vars, fvars, tvars, cvars>>
    /\ UNCHANGED <<flags, exception>>

DocNext ==
    \/ ParseText
    \/ ParseExample
    \/ ReturnExamples
    \/ SkipExample
    \/ RunExample
    \/ CheckReturns
    \/ UnexpectedException
    \/ RecordOutcome
    \/ NextDocstring
    \/ Next

allvars == <<vars, others>>

DocSpec == DocInit /\ [][DocNext]_allvars

\* the parser and the runner under every setting of the switches
RunSpec == RunInit /\ [][DocNext]_allvars

(***************************************************************************)
(* Properties of the parser and the runner.                                *)
(***************************************************************************)
\* the block-skip state after the first n items of a docstring, from NORMAL
RECURSIVE SkippingAfter(_, _)
SkippingAfter(its, n) ==
    IF n = 0 THEN FALSE
    ELSE IF its[n].kind = "text"
         THEN (its[n].text = <<>>) /\ SkippingAfter(its, n - 1)
         ELSE its[n].SKIPBLOCK # "absent" \/ SkippingAfter(its, n - 1)

\* the example item carries a directive or a word that skips it by itself
SkippedByItself(it) ==
    it.SKIP = "True" \/ \E word \in pseudocode : Contains(it.source, word)

Attempted(outs) == Cardinality({i \in 1..Len(outs) : outs[i] # "skip"})

Failed(outs) == Cardinality({i \in 1..Len(outs) : outs[i] \in {"failure", "boom"}})

\* the example items among the first n items
ExamplesIn(its, n) == Cardinality({i \in 1..n : its[i].kind = "example"})

\* C13: an example with a pseudocode word in its source, like one with the
\* skip directive, is in the list of examples with SKIP set, is never run,
\* and the counts of the docstring are those of the examples that ran.
C13_PseudocodeSkipped ==
    /\ Len(examples) = ExamplesIn(items, pos)
    /\ \A i \in 1..Len(examples) :
          SkippedByItself(items[examples[i].at]) =>
              /\ examples[i].SKIP = "True"
              /\ i <= Len(outcomes) => outcomes[i] = "skip"
    /\ dpc = "done" =>
          history[Len(history)] = <<Failed(outcomes), Attempted(outcomes)>>

\* a docstring of one example, pseudocode that is not valid code, has been
\* run: nothing tried, nothing failed
C13_Witness ==
    /\ dpc = "done"
    /\ ~second
    /\ Len(examples) = 1
    /\ Contains(examples[1].source, <<"oops">>)
    /\ examples[1].run = "raise"
    /\ outcomes = <<"skip">>
    /\ history = <<<<0, 0>>>>

\* the output of the example item is not to be compared
IgnoresOutput(it) ==
    \/ \E word \in DefaultMarkers \cup stopwords : Contains(it.source, word)
    \/ \E word \in DefaultMarkers : Contains(it.want, word)

MaxListed == 2

Dot(a, b) == a \o "." \o b

\* getattr(module, name): the names the module binds
Bound == {"f", "g", "old", "A", "B", "sub"}

GetAttr(name) == IF name = "g" THEN "f" ELSE name

\* names an __all__ may hold: the bound ones, one the module does not bind,
\* and one of those get_all_list removes
NameOrder == <<"f", "g", "old", "A", "B", "sub", "gone", "division">>

IsModule(obj) == obj \in {"m", "sub"}

IsClass(obj) == obj \in {"A", "B"}

\* util.py:159-170: is_deprecated
is_deprecated(obj) == obj = "old"

\* obj.__name__ of the objects that can be listed
NameOf(obj) == IF obj = "sub" THEN "m.sub" ELSE obj

\* item.__mro__ of a class
Mro(obj) == IF obj = "B" THEN <<"B", "A", "object">> ELSE <<obj, "object">>

BasesAndRoot(obj) == SubSeq(Mro(obj), 2, Len(Mro(obj)))

\* frontend.py:107: `item.__mro__[1:-1]`
Bases(obj) == SubSeq(Mro(obj), 2, Len(Mro(obj)) - 1)

\* the documented members in the __dict__ of a class
OwnMembers(obj) ==
    IF obj = "A" THEN {<<"meth", "A.meth">>, <<"only_a", "A.only_a">>,
                       <<"prop", "A.prop">>}
    ELSE IF obj = "B" THEN {<<"meth", "B.meth">>}
    ELSE {}

\* impl.py:543-545: the members of a class, inherited ones included, that
\* are data descriptors
DataDescriptors(obj) ==
    IF IsClass(obj) THEN {<<"prop", "A.prop">>, <<"__weakref__", "A.__weakref__">>}
    ELSE {}

\* the members of the module that the standard finder recurses into; it
\* looks at an object once, under the first name bound to it
ModuleMembers == {<<"f", "f">>, <<"old", "old">>, <<"A", "A">>, <<"B", "B">>}

\* a DocTest: its name, the docstring it holds, the file it is said to be of
DocTest(name, obj, file) == [name |-> name, obj |-> obj, file |-> file]

\* doctest.DocTestFinder.find(obj, name) on a class or a function
FindObject(obj, name) ==
    {DocTest(name, obj, "m.py")}
    \cup {DocTest(Dot(name, mem[1]), mem[2], "m.py") : mem \in OwnMembers(obj)}

\* doctest.DocTestFinder.find(obj, name) on a module
FindModule(obj, name, recurse) ==
    {DocTest(name, obj, "m.py")}
    \cup (IF recurse /\ obj = "m"
          THEN UNION {FindObject(mem[2], Dot(name, mem[1])) : mem \in ModuleMembers}
          ELSE {})

\* impl.py:536-549: DTFinder.find
DTFinder_find(obj, name, recurse) ==
    IF IsModule(obj) THEN FindModule(obj, name, recurse)
    ELSE FindObject(obj, name)
         \cup {DocTest(Dot(name, mem[1]), mem[2], "none") : mem \in DataDescriptors(obj)}

\* frontend.py:99-109: a listed object that is not a module, and the bases
\* of a class
FindWithBases(obj, name) ==
    DTFinder_find(obj, name, TRUE)
    \cup (IF IsClass(obj)
          THEN UNION {DTFinder_find(Bases(obj)[j], name, TRUE) :
                          j \in 1..Len(Bases(obj))}
          ELSE {})

KeepAll(ts, skip) == ts

\* frontend.py:69, 114: `[t for t in tests if t.name not in config.skiplist]`
NotSkipped(ts, skip) == {x \in ts : x.t.name \notin skip}

\* util.py:173-206: get_all_list, the names that are not deprecated
RECURSIVE Filter(_, _)
Filter(names, keep) ==
    IF names = <<>> THEN <<>>
    ELSE (IF Head(names) \in keep THEN <<Head(names)>> ELSE <<>>)
         \o Filter(Tail(names), keep)

get_all_list(al) ==
    LET declared == IF al.has THEN al.names ELSE <<>>
        kept == {n \in {"f", "g", "old", "A", "B", "sub", "gone"} :
                    /\ ~(n \in Bound /\ IsModule(GetAttr(n)))
                    /\ ~(n \in Bound /\ is_deprecated(GetAttr(n)))}
    IN  Filter(declared, kept)

\* util.py:236-255: get_public_objects; names is get_all_list(module)
PublicNames(names, skip) ==
    Filter(names, {n \in Bound \cup {"gone"} : Dot("m", n) \notin skip})

Missing(names) == Filter(names, {"gone"})

\* what find_doctests is called with
Listable == {"m", "sub", "f", "A", "B"}

Lists == UNION {[1..n -> Listable] : n \in 0..MaxListed}

Skippable == {"m", "m.A", "m.B.meth", "m.gone", "m.f"}

AllLists ==
    {[has |-> FALSE, names |-> <<>>]}
    \cup {[has |-> TRUE, names |-> Filter(NameOrder, S)] :
              S \in SUBSET {"f", "g", "old", "A", "B", "sub", "gone", "division"}}

FindInit ==
    /\ CheckerIdle
    /\ ConfigIdle
    /\ config = DTConfig(DefaultAtol, DefaultRtol, FALSE, TRUE, DefaultMarkers)
    /\ DocIdle
    /\ TempIdle
    /\ \/ /\ strategy = [kind |-> "api", objs |-> <<>>]
          /\ all_list \in AllLists
       \/ /\ strategy \in {[kind |-> "none", objs |-> <<>>],
                           [kind |-> "other", objs |-> <<>>]}
                          \cup {[kind |-> "list", objs |-> l] : l \in Lists}
          /\ all_list = [has |-> TRUE, names |-> <<"f", "A", "B">>]
    /\ skiplist \in SUBSET Skippable
    /\ fitems = <<>>
    /\ fnames = <<>>
    /\ fdone = 0
    /\ tests = {}
    /\ fpc = "start"

\* frontend.py:67-70: the standard discovery, then the skiplist
FindDefault ==
    /\ fpc = "start"
    /\ strategy.kind = "none"
    /\ tests' = NotSkipped({[i |-> 0, t |-> t] : t \in DTFinder_find("m", "m", TRUE)},
                           skiplist)
    /\ fpc' = "done"
    /\ UNCHANGED <<strategy, all_list, skiplist, fitems, fnames, fdone>>
    /\ UNCHANGED <<vars, dvars, tvars, cvars>>

\* frontend.py:72-82: the public objects, then the module itself
PublicObjects ==
    /\ fpc = "start"
    /\ strategy.kind = "api"
    /\ \E names \in {PublicNames(get_all_list(all_list), skiplist)} :
          /\ Missing(names) = <<>>
          /\ fitems' = [j \in 1..Len(names) |-> GetAttr(names[j])] \o <<"m">>
          /\ fnames' = names \o <<"m">>
    /\ fpc' = "extract"
    /\ UNCHANGED <<strategy, all_list, skiplist, fdone, tests>>
    /\ UNCHANGED <<vars, dvars, tvars, cvars>>

\* frontend.py:78-80: a name of __all__ is not an attribute of the module
MissingItems ==
    /\ fpc = "start"
    /\ strategy.kind = "api"
    /\ Missing(PublicNames(get_all_list(all_list), skiplist)) # <<>>
    /\ fpc' = "ValueError"
    /\ UNCHANGED <<strategy, all_list, skiplist, fitems, fnames, fdone, tests>>
    /\ UNCHANGED <<vars, dvars, tvars, cvars>>

\* frontend.py:87-88: the objects of the list
ListedObjects ==
    /\ fpc = "start"
    /\ strategy.kind = "list"
    /\ fitems' = strategy.objs
    /\ fnames' = [j \in 1..Len(strategy.objs) |-> NameOf(strategy.objs[j])]
    /\ fpc' = "extract"
    /\ UNCHANGED <<strategy, all_list, skiplist, fdone, tests>>
    /\ UNCHANGED <<vars, dvars, tvars, cvars>>

\* frontend.py:85-86: the strategy is not a list
NotAList ==
    /\ fpc = "start"
    /\ strategy.kind = "other"
    /\ fpc' = "ValueError"
    /\ UNCHANGED <<strategy, all_list, skiplist, fitems, fnames, fdone, tests>>
    /\ UNCHANGED <<vars, dvars, tvars, cvars>>

\* frontend.py:93-97, 110: an item that is a module
ExtractModule ==
    /\ fpc = "extract"
    /\ fdone < Len(fitems)
    /\ IsModule(fitems[fdone + 1])
    /\ tests' = tests \cup
          {[i |-> fdone + 1, t |-> t] :
               t \in DTFinder_find(fitems[fdone + 1], fnames[fdone + 1], FALSE)}
    /\ fdone' = fdone + 1
    /\ UNCHANGED <<strategy, all_list, skiplist, fitems, fnames, fpc>>
    /\ UNCHANGED <<vars, dvars, tvars, cvars>>

\* frontend.py:98-110: an item that is not a module
ExtractObject ==
    /\ fpc = "extract"
    /\ fdone < Len(fitems)
    /\ ~IsModule(fitems[fdone + 1])
    /\ tests' = tests \cup
          {[i |-> fdone + 1, t |-> t] :
               t \in FindWithBases(fitems[fdone + 1], Dot("m", fnames[fdone + 1]))}
    /\ fdone' = fdone + 1
    /\ UNCHANGED <<strategy, all_list, skiplist, fitems, fnames, fpc>>
    /\ UNCHANGED <<vars, dvars, tvars, cvars>>

\* frontend.py:112-115: the skiplist, then return
DropSkipped ==
    /\ fpc = "extract"
    /\ fdone = Len(fitems)
    /\ tests' = NotSkipped(tests, skiplist)
    /\ fpc' = "done"
    /\ UNCHANGED <<strategy, all_list, skiplist, fitems, fnames, fdone>>
    /\ UNCHANGED <<vars, dvars, tvars, cvars>>

FindNext ==
    \/ FindDefault
    \/ PublicObjects
    \/ MissingItems
    \/ ListedObjects
    \/ NotAList
    \/ ExtractModule
    \/ ExtractObject
    \/ DropSkipped

FindSpec == FindInit /\ [][FindNext]_allvars

(***************************************************************************)
(* Properties of find_doctests.                                            *)
(***************************************************************************)
\* find_doctests has returned or raised
Found == fpc \in {"done", "ValueError"}

\* C15: with strategy 'api', when a name of __all__ is not an attribute of
\* the module, find_doctests raises ValueError.
C15_MissingNameRaises ==
    (/\ Found
     /\ strategy.kind = "api"
     /\ \E j \in 1..Len(all_list.names) : all_list.names[j] \notin Bound)
        => fpc = "ValueError"

\* C16: no test that find_doctests returns has a name of the skiplist.
C16_NoSkiplisted ==
    fpc = "done" => \A x \in tests : x.t.name \notin skiplist

\* a class is listed, a method of it is in the skiplist, and tests are returned
C16_Witness ==
    /\ fpc = "done"
    /\ strategy = [kind |-> "list", objs |-> <<"B">>]
    /\ skiplist = {"m.B.meth"}
    /\ \E x \in tests : x.t.name = "m.B.only_a"

\* C17: no two tests that find_doctests returns have the same name.
C17_UniqueNames ==
    fpc = "done" => \A x, y \in tests : x.t.name = y.t.name => x = y

\* the docstrings of a class: its own, and those of what it defines or has
\* as a data descriptor
ClassDocstrings(c) ==
    {c} \cup {mem[2] : mem \in OwnMembers(c)} \cup {mem[2] : mem \in DataDescriptors(c)}

\* the docstrings a listed object contributes
Contributes(obj) ==
    IF IsModule(obj) THEN {obj}
    ELSE IF IsClass(obj)
    THEN UNION {ClassDocstrings(Mro(obj)[j]) : j \in 1..(Len(Mro(obj)) - 1)}
    ELSE {obj}

C19_FallbackWithoutAll ==
    (/\ Found
     /\ strategy.kind = "api"
     /\ ~all_list.has
     /\ skiplist = {})
        => /\ fpc = "done"
           /\ \A n \in {"f", "A", "B"} : \E x \in tests : x.t.obj = GetAttr(n)

(***************************************************************************)
(* temp_cwd around the run of each test of a list, as testmod uses it.     *)
(* A directory is <<"work", 0>>, where the process starts, <<"tmp", n>>,   *)
(* the n-th directory mkdtemp makes, or <<"other", 0>>.                    *)
(***************************************************************************)
MaxGroups == 2

MaxFiles == 2

\* a test: the local files it asks for, each there or not, and what the run
\* of its examples does: "ok", "raise", "chdir" to another directory,
\* "printoptions": it sets the print options, and that followed by "raise"
Groups ==
    {[files |-> fs, body |-> b] :
        fs \in UNION {[1..n -> {"present", "missing"}] : n \in 0..MaxFiles},
        b \in {"ok", "raise", "chdir", "printoptions", "printoptions_raise"}}

\* the order in which the loop of testmod enters the context managers
GuardOrder == <<"np_errstate", "user_context_mgr", "mpl", "temp_cwd">>

\* what remains entered when the innermost context manager is left
Released(entered) == SubSeq(entered, 1, Len(entered) - 1)

\* a variant of np.printoptions that restores nothing
KeepOptions(saved, current) == current
\* the print options after the exit of np.printoptions()
RestoreOptions(saved, current) == saved

TempInit ==
    /\ CheckerIdle
    /\ ConfigIdle
    /\ config = DTConfig(DefaultAtol, DefaultRtol, FALSE, TRUE, DefaultMarkers)
    /\ DocIdle
    /\ FinderIdle
    /\ groups \in UNION {[1..n -> Groups] : n \in 1..MaxGroups}
    /\ group = 1
    /\ cwd = <<"work", 0>>
    /\ saved_cwd = <<"none", 0>>
    /\ tmpdir = <<"none", 0>>
    /\ dirs = {}
    /\ made = 0
    /\ copied = 0
    /\ raising = FALSE
    /\ tpc = "group"
    /\ held = <<>>
    /\ printoptions = "default"
    /\ saved_printoptions = "none"

\* frontend.py:260, util.py:110-116: with np_errstate(): np.errstate() and
\* np.printoptions() save the state
EnterErrstate ==
    /\ tpc = "group"
    /\ saved_printoptions' = printoptions
    /\ held' = Append(held, "np_errstate")
    /\ tpc' = "user"
    /\ UNCHANGED <<groups, group, cwd, saved_cwd, tmpdir, dirs, made, copied,
                   raising, printoptions>>
    /\ UNCHANGED <<vars, dvars, fvars, cvars>>

\* frontend.py:261: with config.user_context_mgr(test)
EnterUserContext ==
    /\ tpc = "user"
    /\ held' = Append(held, "user_context_mgr")
    /\ tpc' = "mpl"
    /\ UNCHANGED <<groups, group, cwd, saved_cwd, tmpdir, dirs, made, copied,
                   raising, printoptions, saved_printoptions>>
    /\ UNCHANGED <<vars, dvars, fvars, cvars>>

\* frontend.py:262, util.py:14-32: with mpl()
EnterMpl ==
    /\ tpc = "mpl"
    /\ held' = Append(held, "mpl")
    /\ tpc' = "enter"
    /\ UNCHANGED <<groups, group, cwd, saved_cwd, tmpdir, dirs, made, copied,
                   raising, printoptions, saved_printoptions>>
    /\ UNCHANGED <<vars, dvars, fvars, cvars>>

\* util.py:57-58: os.getcwd(), tempfile.mkdtemp()
MakeTempDir ==
    /\ tpc = "enter"
    /\ saved_cwd' = cwd
    /\ tmpdir' = <<"tmp", made + 1>>
    /\ dirs' = dirs \cup {<<"tmp", made + 1>>}
    /\ made' = made + 1
    /\ copied' = 0
    /\ tpc' = "stage"
    /\ UNCHANGED <<groups, group, cwd, raising, guards>>
    /\ UNCHANGED <<vars, dvars, fvars, cvars>>

\* util.py:60-64: a local file is copied to the directory
CopyFile ==
    /\ tpc = "stage"
    /\ copied < Len(groups[group].files)
    /\ groups[group].files[copied + 1] = "present"
    /\ copied' = copied + 1
    /\ UNCHANGED <<groups, group, cwd, saved_cwd, tmpdir, dirs, made, raising, tpc>>
    /\ UNCHANGED guards
    /\ UNCHANGED <<vars, dvars, fvars, cvars>>

\* util.py:64: the file is not there; shutil.copy raises, outside the try
CopyRaises ==
    /\ tpc = "stage"
    /\ copied < Len(groups[group].files)
    /\ groups[group].files[copied + 1] = "missing"
    /\ raising' = TRUE
    /\ tpc' = "raised"
    /\ UNCHANGED <<groups, group, cwd, saved_cwd, tmpdir, dirs, made, copied>>
    /\ UNCHANGED guards
    /\ UNCHANGED <<vars, dvars, fvars, cvars>>

\* util.py:65-67: os.chdir(tmpdir); yield: temp_cwd is entered
ChangeDir ==
    /\ tpc = "stage"
    /\ copied = Len(groups[group].files)
    /\ cwd' = tmpdir
    /\ held' = Append(held, "temp_cwd")
    /\ tpc' = "body"
    /\ UNCHANGED <<groups, group, saved_cwd, tmpdir, dirs, made, copied, raising>>
    /\ UNCHANGED <<printoptions, saved_printoptions>>
    /\ UNCHANGED <<vars, dvars, fvars, cvars>>

\* frontend.py:263: the test runs inside the `with` blocks
RunGroup ==
    /\ tpc = "body"
    /\ cwd' = IF groups[group].body = "chdir" THEN <<"other", 0>> ELSE cwd
    /\ printoptions' = IF groups[group].body \in {"printoptions", "printoptions_raise"}
                       THEN "changed"
                       ELSE printoptions
    /\ raising' = (groups[group].body \in {"raise", "printoptions_raise"})
    /\ tpc' = "finally"
    /\ UNCHANGED <<groups, group, saved_cwd, tmpdir, dirs, made, copied>>
    /\ UNCHANGED <<held, saved_printoptions>>
    /\ UNCHANGED <<vars, dvars, fvars, cvars>>

\* util.py:68-70: finally: os.chdir(cwd); shutil.rmtree(tmpdir)
Finally ==
    /\ tpc = "finally"
    /\ cwd' = saved_cwd
    /\ dirs' = dirs \ {tmpdir}
    /\ held' = Released(held)
    /\ tpc' = IF raising THEN "raised" ELSE "left"
    /\ UNCHANGED <<groups, group, saved_cwd, tmpdir, made, copied, raising>>
    /\ UNCHANGED <<printoptions, saved_printoptions>>
    /\ UNCHANGED <<vars, dvars, fvars, cvars>>

\* util.py:35-39: the `finally` of matplotlib_make_nongui, by return or by
\* an exception of the block or of temp_cwd
ExitMpl ==
    /\ tpc \in {"left", "raised"}
    /\ held' = Released(held)
    /\ tpc' = "mpl_left"
    /\ UNCHANGED <<groups, group, cwd, saved_cwd, tmpdir, dirs, made, copied,
                   raising, printoptions, saved_printoptions>>
    /\ UNCHANGED <<vars, dvars, fvars, cvars>>

\* frontend.py:261: the user context is left
ExitUserContext ==
    /\ tpc = "mpl_left"
    /\ held' = Released(held)
    /\ tpc' = "user_left"
    /\ UNCHANGED <<groups, group, cwd, saved_cwd, tmpdir, dirs, made, copied,
                   raising, printoptions, saved_printoptions>>
    /\ UNCHANGED <<vars, dvars, fvars, cvars>>

\* util.py:114-116: np.printoptions() and np.errstate() restore what they
\* saved; an exception goes on out of testmod
ExitErrstate ==
    /\ tpc = "user_left"
    /\ printoptions' = RestoreOptions(saved_printoptions, printoptions)
    /\ held' = Released(held)
    /\ tpc' = IF raising THEN "propagated" ELSE "next"
    /\ UNCHANGED <<groups, group, cwd, saved_cwd, tmpdir, dirs, made, copied,
                   raising, saved_printoptions>>
    /\ UNCHANGED <<vars, dvars, fvars, cvars>>

\* frontend.py:249: testmod goes on to the next test
NextGroup ==
    /\ tpc = "next"
    /\ IF group < Len(groups)
       THEN group' = group + 1 /\ tpc' = "group"
       ELSE group' = group /\ tpc' = "finished"
    /\ UNCHANGED <<groups, cwd, saved_cwd, tmpdir, dirs, made, copied, raising>>
    /\ UNCHANGED guards
    /\ UNCHANGED <<vars, dvars, fvars, cvars>>

TempNext ==
    \/ EnterErrstate
    \/ EnterUserContext
    \/ EnterMpl
    \/ MakeTempDir
    \/ CopyFile
    \/ CopyRaises
    \/ ChangeDir
    \/ RunGroup
    \/ Finally
    \/ ExitMpl
    \/ ExitUserContext
    \/ ExitErrstate
    \/ NextGroup

TempSpec == TempInit /\ [][TempNext]_allvars

(***************************************************************************)
(* Properties of temp_cwd.                                                 *)
(***************************************************************************)
\* C20: when temp_cwd has been left, by return or by an exception of the run
\* or of the copy of a local file, the directory it made is removed and the
\* working directory is the one before.
C20_TempDirRemoved ==
    tpc \in {"left", "raised", "finished"} =>
        /\ tmpdir \notin dirs
        /\ cwd = <<"work", 0>>

(***************************************************************************)
(* Properties of the runner's switches and of the filter's marks.          *)
(***************************************************************************)
\* the examples before the i-th that raised an unexpected exception
RaisedBefore(i) == {j \in 1..(i - 1) : outcomes[j] = "boom"}

\* C21: within one docstring, the report of an unexpected NameError is
\* suppressed iff nameerror_after_exception is off and an earlier example of
\* the docstring raised an unexpected exception; the first unexpected
\* exception, every other exception, and every NameError with the switch on
\* are reported.
C21_NameErrorSuppression ==
    \A i \in 1..Len(outcomes) :
        outcomes[i] = "boom" =>
            (~shown[i] <=> /\ ~nameerror_after_exception
                           /\ examples[i].run = "NameError"
                           /\ RaisedBefore(i) # {})

\* with the switch off, a NameError came first and was reported, and the
\* NameError after it was not
C21_Witness ==
    /\ ~nameerror_after_exception
    /\ ~raise_on_error
    /\ Len(outcomes) = 2
    /\ examples[1].run = "NameError"
    /\ examples[2].run = "NameError"
    /\ outcomes = <<"boom", "boom">>
    /\ shown = <<TRUE, FALSE>>

\* the examples of the docstring that are not skipped
NotSkippedExamples == {i \in 1..Len(examples) : examples[i].SKIP # "True"}

\* C22: a DebugDTRunner raises at the first example that fails its check
\* (DocTestFailure) or raises unexpectedly (UnexpectedException), with that
\* example and its test, and runs no example after it; a DTRunner raises
\* nothing, records the failure and attempts every other example.
C22_DebugRaisesFirst ==
    /\ raise_on_error =>
          /\ \A i \in 1..Len(outcomes) :
                outcomes[i] \in {"failure", "boom"} =>
                    /\ i = Len(outcomes)
                    /\ dpc = "raised"
                    /\ exception.example = i
                    /\ exception.test = (IF second THEN 2 ELSE 1)
                    /\ exception.type = (IF outcomes[i] = "failure"
                                         THEN "DocTestFailure"
                                         ELSE "UnexpectedException")
          /\ dpc = "raised" =>
                /\ outcomes[Len(outcomes)] \in {"failure", "boom"}
                /\ rpos = Len(outcomes) - 1
    /\ ~raise_on_error =>
          /\ dpc # "raised"
          /\ exception = NoException
          /\ dpc = "done" =>
                /\ Len(outcomes) = Len(examples)
                /\ \A i \in NotSkippedExamples : outcomes[i] # "skip"

\* the debug runner raised at the first of two examples to run
C22_Witness ==
    /\ raise_on_error
    /\ dpc = "raised"
    /\ exception.type = "DocTestFailure"
    /\ exception.example = 1
    /\ NotSkippedExamples = {1, 2}
    /\ Len(outcomes) = 1
    /\ tries = 1

\* the line the filter appends: "  # _ignore"
Sentinel == <<" ", " ", "#", " ", "_ignore">> \o NL

\* `wanted` is `original` with the sentinel appended at most n times
RECURSIVE Appended(_, _, _)
Appended(original, n, wanted) ==
    \/ wanted = original
    \/ n > 0 /\ Appended(original \o Sentinel, n - 1, wanted)

\* the filter returns the example items of the docstring, each once, in order
EveryExampleOnce ==
    /\ Len(examples) = ExamplesIn(items, pos)
    /\ \A i \in 1..Len(examples) :
          /\ items[examples[i].at].kind = "example"
          /\ \A j \in 1..(i - 1) : examples[j].at < examples[i].at

\* C25, as claimed: the filter returns every parsed example once and in
\* order, and changes nothing of an example but its expected output, to
\* which it appends the sentinel: source, line and options are as parsed.
C25_OnlyWantMutated ==
    /\ EveryExampleOnce
    /\ \A i \in 1..Len(examples) :
          LET it == items[examples[i].at]
          IN  /\ examples[i].source = it.source
              /\ examples[i].lineno = it.lineno
              /\ examples[i].SKIPBLOCK = it.SKIPBLOCK
              /\ examples[i].SKIP = it.SKIP
              /\ Appended(it.want, 2, examples[i].want)

\* C25, amended: the filter returns every parsed example once and in order;
\* it changes nothing of an example but its expected output, to which it
\* appends the sentinel, and its SKIP option, which it sets on an example of
\* a skipped block or with a pseudocode word: source, line and the SKIPBLOCK
\* option are as parsed.
C25_WantAndSkipMutated ==
    /\ EveryExampleOnce
    /\ \A i \in 1..Len(examples) :
          LET it == items[examples[i].at]
              block == it.SKIPBLOCK # "absent"
                           \/ SkippingAfter(items, examples[i].at - 1)
          IN  /\ examples[i].source = it.source
              /\ examples[i].lineno = it.lineno
              /\ examples[i].SKIPBLOCK = it.SKIPBLOCK
              /\ examples[i].SKIP =
                     (IF block \/ (\E word \in pseudocode :
                                      Contains(it.source, word))
                      THEN "True" ELSE it.SKIP)
              /\ Appended(it.want, 2, examples[i].want)
              /\ examples[i].want # it.want <=>
                     \E word \in config.rndm_markers \cup stopwords :
                         Contains(it.source, word)

\* the filter has returned two examples: the first with SKIP set for its
\* pseudocode word, the second with the sentinel appended for its stopword
C25_Witness ==
    /\ dpc = "run"
    /\ rpos = 0
    /\ Len(examples) = 2
    /\ items[examples[1].at].SKIP = "absent"
    /\ examples[1].SKIP = "True"
    /\ examples[1].want = items[examples[1].at].want
    /\ examples[2].SKIP = "absent"
    /\ examples[2].want = items[examples[2].at].want \o Sentinel
    /\ examples[2].lineno = 2

\* the examples whose report was suppressed
Suppressed == {i \in 1..Len(outcomes) : outcomes[i] = "boom" /\ ~shown[i]}

\* the examples whose failure was reported
Reported == {i \in 1..Len(outcomes) : shown[i]}

\* testmod's result: the sums of the entries of the history
RECURSIVE TestResults(_)
TestResults(h) ==
    IF h = <<>> THEN <<0, 0>>
    ELSE LET rest == TestResults(SubSeq(h, 1, Len(h) - 1))
         IN  <<rest[1] + h[Len(h)][1], rest[2] + h[Len(h)][2]>>

\* C29: an example whose NameError report is suppressed is counted: the
\* (failures, attempted) entry of its docstring, and so testmod's totals,
\* count it as attempted and as failed.
C29_SuppressedStillCounted ==
    ~raise_on_error =>
        /\ failures = Cardinality(Reported) + Cardinality(Suppressed)
        /\ Suppressed \subseteq {i \in 1..Len(outcomes) : outcomes[i] # "skip"}
        /\ dpc = "done" =>
              LET entry == history[Len(history)]
                  before == TestResults(SubSeq(history, 1, Len(history) - 1))
              IN  /\ entry[1] = Cardinality(Reported) + Cardinality(Suppressed)
                  /\ entry[2] = Attempted(outcomes)
                  /\ TestResults(history) =
                         <<before[1] + entry[1], before[2] + entry[2]>>

\* a docstring has been run: its first example raised, the report of the
\* NameError after it was suppressed, and both are counted
C29_Witness ==
    /\ dpc = "done"
    /\ ~second
    /\ ~nameerror_after_exception
    /\ Len(examples) = 2
    /\ examples[1].run = "raise"
    /\ Suppressed = {2}
    /\ Reported = {1}
    /\ history = <<<<2, 2>>>>
    /\ TestResults(history) = <<2, 2>>

\* the filter appended the sentinel to the expected output of the example
Marked(example) == example.want # items[example.at].want

\* C30: an example that the filter marked and that runs without raising
\* passes the check of the output, whatever it printed and whatever the
\* markers of the configuration, none included: the checker knows the
\* sentinel by itself.
C30_MarkedPasses ==
    /\ \A i \in 1..Len(outcomes) :
          (Marked(examples[i]) /\ examples[i].SKIP # "True"
               /\ examples[i].run = "ok")
              => outcomes[i] = "success"
    /\ (dpc = "check" /\ pc = "done" /\ Marked(examples[rpos + 1]))
          => result = "True" /\ rule = "marker"

\* without markers in the configuration, a marked example that printed
\* something else than it wanted has passed by the rule of the markers
C30_Witness ==
    /\ config = NoMarkersConfig
    /\ dpc = "check"
    /\ pc = "done"
    /\ Marked(examples[rpos + 1])
    /\ examples[rpos + 1].got # items[examples[rpos + 1].at].want
    /\ result = "True"
    /\ rule = "marker"

(***************************************************************************)
(* Properties of the checker: abbreviated arrays and dicts.                *)
(***************************************************************************)
\* the check of want0 against got0 goes by the repair of abbreviated arrays
AbbreviatedCase == Frame(want0, got0, config).rule = "abbreviated"

\* the shape annotation at the end of an abbreviated array, <<>> without one
ShapeOfText(text) == try_split_shape_from_abbrv(Strip(text)).shape

\* the abbreviated array without its shape annotation and its ellipses
WithoutShape(text) == try_split_shape_from_abbrv(Strip(text)).text

\* C27: in the repair of abbreviated arrays, the shape annotation is compared
\* iff the actual output has one: then the check passes only if the expected
\* output has an equal shape; without one in the actual output, the shape of
\* the expected output is stripped and ignored.
C27_ShapeComparedIfPresent ==
    (pc = "done" /\ AbbreviatedCase) =>
        IF ShapeOfText(got0) # <<>>
        THEN result = "True" => ShapeOfText(want0) = ShapeOfText(got0)
        ELSE result = check_output(WithoutShape(want0), WithoutShape(got0),
                                   config, RecursionLimit)

\* the keys of a dict
KeysOf(v) == {v.e[i].f : i \in 1..Len(v.e)}

\* both outputs reconstruct to dicts with the same keys
SameKeyDicts ==
    /\ pc = "done"
    /\ Eval(want0).st = "ok"
    /\ Eval(got0).st = "ok"
    /\ Eval(want0).v.k = "dict"
    /\ Eval(got0).v.k = "dict"
    /\ KeysOf(Eval(want0).v) = KeysOf(Eval(got0).v)

\* C28: when the expected and the actual output both reconstruct to dicts with
\* the same keys, the check passes only if the values under every key are
\* equal or within tolerance.
C28_DictValuesCompared ==
    (SameKeyDicts /\ result = "True") =>
        \A i \in 1..Len(Eval(want0).v.e) :
            \A j \in 1..Len(Eval(got0).v.e) :
                Eval(want0).v.e[i].f = Eval(got0).v.e[j].f
                    => WithinTolerance(Eval(want0).v.e[i].e[1],
                                       Eval(got0).v.e[j].e[1],
                                       config.atol, config.rtol)

(***************************************************************************)
(* Properties of the context managers around the run of each test.         *)
(***************************************************************************)
\* the context managers that are entered at each position of the loop
HeldAt(position) ==
    CASE position = "user" -> SubSeq(GuardOrder, 1, 1)
      [] position = "mpl" -> SubSeq(GuardOrder, 1, 2)
      [] position \in {"enter", "stage"} -> SubSeq(GuardOrder, 1, 3)
      [] position \in {"body", "finally"} -> GuardOrder
      [] position \in {"left", "raised"} -> SubSeq(GuardOrder, 1, 3)
      [] position = "mpl_left" -> SubSeq(GuardOrder, 1, 2)
      [] position = "user_left" -> SubSeq(GuardOrder, 1, 1)
      [] OTHER -> <<>>

\* C24: around the run of each test np_errstate, the user context, mpl and
\* temp_cwd are entered in this order and left in the reverse order, by
\* return and by exception alike; between two tests and when the call has
\* returned or raised, none of them is entered, and the print options and the
\* working directory are those from before the call.
C24_GuardsScoped ==
    tpc # "idle" =>
        /\ held = HeldAt(tpc)
        /\ tpc \in {"group", "next", "finished", "propagated"} =>
              /\ printoptions = "default"
              /\ cwd = <<"work", 0>>

\* C24 happens: the first test set the print options, the second changed
\* the directory and raised nothing, and the call has returned
C24_Witness ==
    /\ tpc = "finished"
    /\ Len(groups) = 2
    /\ groups[1].body = "printoptions"
    /\ groups[2].body = "chdir"
    /\ saved_printoptions = "default"
    /\ printoptions = "default"
    /\ cwd = <<"work", 0>>
    /\ held = <<>>

(***************************************************************************)
(* DTConfig.__init__ and the objects of a configuration during a run.      *)
(***************************************************************************)
\* the keyword arguments of DTConfig.__init__
Fields ==
    {"CheckerKlass", "default_namespace", "check_namespace", "rndm_markers",
     "atol", "rtol", "strict_check", "optionflags", "stopwords", "pseudocode",
     "skiplist", "user_context_mgr", "local_resources", "parse_namedtuples",
     "nameerror_after_exception", "pytest_extra_ignore", "pytest_extra_skip",
     "pytest_extra_xfail"}

\* the fields assigned as `x or default`
OrFields ==
    {"CheckerKlass", "default_namespace", "local_resources",
     "pytest_extra_ignore", "pytest_extra_skip", "pytest_extra_xfail"}

\* the fields that hold a set or a dict the run reads
Containers == {"rndm_markers", "check_namespace", "default_namespace"}

\* a class and a context manager are never false
Arguments(f) ==
    IF f \in {"CheckerKlass", "user_context_mgr"} THEN {"None", "given"}
    ELSE {"None", "given", "empty"}

\* the default of a field: "empty" when it is a false value ({}, [], set(),
\* False), "default" otherwise
DefaultValue(f) ==
    IF f \in {"default_namespace", "local_resources", "pytest_extra_ignore",
              "pytest_extra_skip", "pytest_extra_xfail", "pseudocode",
              "strict_check", "nameerror_after_exception"}
    THEN "empty"
    ELSE "default"

\* the attribute DTConfig.__init__ leaves for a field
Attribute(f, x) ==
    IF f \in OrFields
    THEN (IF x \in {"None", "empty"} THEN DefaultValue(f) ELSE x)
    ELSE IF f = "check_namespace"
    THEN (IF x = "None" THEN DefaultValue(f) ELSE "undefined")
    ELSE IF x = "None" THEN DefaultValue(f) ELSE x

MaxOverridden == 2

\* the keys of the objects the caller passes and of those the defaults make
GivenKeys(f) ==
    CASE f = "rndm_markers" -> {"# tol"}
      [] f = "check_namespace" -> {"np", "x"}
      [] OTHER -> {"np"}

DefaultKeys(f) ==
    CASE f = "rndm_markers" -> {"# random", "# Random", "#random", "#Random",
                                "# may vary"}
      [] f = "check_namespace" -> {"np", "array", "nan", "inf"}
      [] OTHER -> {}

\* where the object of the caller for a container is, and the one of the default
UserObject(f) ==
    CASE f = "rndm_markers" -> 1 [] f = "check_namespace" -> 2 [] OTHER -> 3

DefaultObject(f) == UserObject(f) + 3

\* a variant of CopyOf that gives the object itself
AliasOf(h, id) == id

\* the object a copy is: a new one, the last of the heap
CopyOf(h, id) == Len(h) + 1

\* the heap with a copy of an object
WithCopy(h, id) == Append(h, h[id])

\* the heap with a key more in an object
WithKey(h, id, key) == [h EXCEPT ![id] = h[id] \cup {key}]

NoRefs ==
    [rndm_markers |-> 0, check_namespace |-> 0, default_namespace |-> 0,
     checker |-> 0, globs |-> 0, test_globs |-> 0, ns |-> 0]

ConfigInit ==
    /\ CheckerIdle
    /\ config = DTConfig(DefaultAtol, DefaultRtol, FALSE, TRUE, DefaultMarkers)
    /\ DocIdle
    /\ FinderIdle
    /\ TempIdle
    /\ \E n \in 0..MaxOverridden :
          \E fs \in [1..n -> Fields] :
             \E xs \in [1..n -> {"given", "empty"}] :
                /\ \A i \in 1..n : xs[i] \in Arguments(fs[i])
                /\ \A i, j \in 1..n : fs[i] = fs[j] => i = j
                /\ kwargs = [f \in Fields |->
                               IF \E i \in 1..n : fs[i] = f
                               THEN xs[CHOOSE i \in 1..n : fs[i] = f]
                               ELSE "None"]
    /\ attrs = [f \in Fields |-> "undefined"]
    /\ heap = <<>>
    /\ refs = NoRefs
    /\ nrun = 0
    /\ cpc = "new"

\* the object config.<f> is after __init__, 0 when the attribute is undefined
ConfigObject(f, x) ==
    IF Attribute(f, x) = "undefined" THEN 0
    ELSE IF x = "given" THEN UserObject(f)
    ELSE IF x = "empty" /\ f \notin OrFields THEN UserObject(f)
    ELSE DefaultObject(f)

\* impl.py:109-223: DTConfig(**kwargs)
Construct ==
    /\ cpc = "new"
    /\ attrs' = [f \in Fields |-> Attribute(f, kwargs[f])]
    /\ heap' = [id \in 1..6 |->
                  LET f == CHOOSE c \in Containers :
                               id \in {UserObject(c), DefaultObject(c)}
                  IN  IF id = DefaultObject(f) THEN DefaultKeys(f)
                      ELSE IF kwargs[f] = "given" THEN GivenKeys(f)
                      ELSE {}]
    /\ refs' = [refs EXCEPT
                  !.rndm_markers = ConfigObject("rndm_markers", kwargs["rndm_markers"]),
                  !.check_namespace = ConfigObject("check_namespace", kwargs["check_namespace"]),
                  !.default_namespace = ConfigObject("default_namespace", kwargs["default_namespace"])]
    /\ cpc' = "config"
    /\ UNCHANGED <<kwargs, nrun>>
    /\ UNCHANGED <<vars, dvars, fvars, tvars>>

\* frontend.py:229-230, 343-344, impl.py:537-538: globs = dict(config.default_namespace)
MakeGlobs ==
    /\ cpc = "config"
    /\ heap' = WithCopy(heap, refs.default_namespace)
    /\ refs' = [refs EXCEPT !.globs = CopyOf(heap, refs.default_namespace)]
    /\ cpc' = "globs"
    /\ UNCHANGED <<kwargs, attrs, nrun>>
    /\ UNCHANGED <<vars, dvars, fvars, tvars>>

\* frontend.py:239-242, impl.py:297-304: the runner makes DTChecker(config):
\* a copy of the markers, and the private marker added to it
MakeChecker ==
    /\ cpc = "globs"
    /\ heap' = WithKey(WithCopy(heap, refs.rndm_markers),
                       CopyOf(heap, refs.rndm_markers), "# _ignore")
    /\ refs' = [refs EXCEPT !.checker = CopyOf(heap, refs.rndm_markers)]
    /\ cpc' = "checker"
    /\ UNCHANGED <<kwargs, attrs, nrun>>
    /\ UNCHANGED <<vars, dvars, fvars, tvars>>

\* frontend.py:385, impl.py:541: the test is made; frontend.py:367-368: with
\* __name__ among its globals
MakeTest ==
    /\ cpc = "checker"
    /\ heap' = WithKey(WithCopy(heap, refs.globs), CopyOf(heap, refs.globs),
                       "__name__")
    /\ refs' = [refs EXCEPT !.test_globs = CopyOf(heap, refs.globs)]
    /\ cpc' = "run"
    /\ UNCHANGED <<kwargs, attrs, nrun>>
    /\ UNCHANGED <<vars, dvars, fvars, tvars>>

\* impl.py:504-507: the runner executes an example in test.globs; it binds
\* a name, or none
ExecExample ==
    /\ cpc = "run"
    /\ nrun < MaxExamples
    /\ \E key \in {"a", "np", "__name__"} :
          heap' = WithKey(heap, refs.test_globs, key)
    /\ cpc' = "check"
    /\ UNCHANGED <<kwargs, attrs, refs, nrun>>
    /\ UNCHANGED <<vars, dvars, fvars, tvars>>

\* impl.py:308-329: check_output returns by one of the early rules
ReturnEarly ==
    /\ cpc = "check"
    /\ nrun' = nrun + 1
    /\ cpc' = "run"
    /\ UNCHANGED <<kwargs, attrs, heap, refs>>
    /\ UNCHANGED <<vars, dvars, fvars, tvars>>

\* impl.py:332: ns = dict(self.config.check_namespace); AttributeError when
\* the configuration has no such attribute
CopyNamespace ==
    /\ cpc = "check"
    /\ IF attrs["check_namespace"] = "undefined"
       THEN /\ cpc' = "AttributeError"
            /\ UNCHANGED <<heap, refs>>
       ELSE /\ heap' = WithCopy(heap, refs.check_namespace)
            /\ refs' = [refs EXCEPT !.ns = CopyOf(heap, refs.check_namespace)]
            /\ cpc' = "eval"
    /\ UNCHANGED <<kwargs, attrs, nrun>>
    /\ UNCHANGED <<vars, dvars, fvars, tvars>>

\* impl.py:339-340: eval(want, dict(ns)); eval(got, dict(ns)): eval puts
\* __builtins__ into the dict it is given
EvalInCopies ==
    /\ cpc = "eval"
    /\ heap' = WithKey(WithKey(WithCopy(WithCopy(heap, refs.ns), refs.ns),
                               CopyOf(heap, refs.ns), "__builtins__"),
                       CopyOf(WithCopy(heap, refs.ns), refs.ns), "__builtins__")
    /\ nrun' = nrun + 1
    /\ cpc' = "run"
    /\ UNCHANGED <<kwargs, attrs, refs>>
    /\ UNCHANGED <<vars, dvars, fvars, tvars>>

\* impl.py:508-509: test.globs.clear()
ClearGlobs ==
    /\ cpc = "run"
    /\ heap' = [heap EXCEPT ![refs.test_globs] = {}]
    /\ cpc' = "done"
    /\ UNCHANGED <<kwargs, attrs, refs, nrun>>
    /\ UNCHANGED <<vars, dvars, fvars, tvars>>

ConfigNext ==
    \/ Construct
    \/ MakeGlobs
    \/ MakeChecker
    \/ MakeTest
    \/ ExecExample
    \/ ReturnEarly
    \/ CopyNamespace
    \/ EvalInCopies
    \/ ClearGlobs

ConfigSpec == ConfigInit /\ [][ConfigNext]_allvars

(***************************************************************************)
(* Properties of the configuration.                                        *)
(***************************************************************************)
\* C23: every field of DTConfig has a default that is not None, and for any
\* set of fields given explicit values the object defines every field: the
\* given value for a field that is given, check_namespace included, and the
\* default for every other.
C23_EveryFieldDefined ==
    cpc \notin {"new", "idle"} =>
        \A f \in Fields :
            /\ attrs[f] # "undefined"
            /\ attrs[f] = IF kwargs[f] = "None" THEN DefaultValue(f) ELSE kwargs[f]

\* the keys of the object the configuration has for a container
KeysBefore(f) ==
    IF kwargs[f] = "given" THEN GivenKeys(f)
    ELSE IF kwargs[f] = "None" THEN DefaultKeys(f)
    ELSE {}

\* C26: no operation of a run modifies the configuration: the markers, the
\* namespace of the checks and the namespace of the examples hold the keys
\* they held when the configuration was made, the private marker is in the
\* checker's copy only, and no attribute changes.
C26_ConfigNotMutated ==
    cpc \notin {"new", "idle"} =>
        /\ attrs = [f \in Fields |-> Attribute(f, kwargs[f])]
        /\ \A f \in Containers :
              refs[f] # 0 => heap[refs[f]] = KeysBefore(f)

\* C26 happens: the checker has its copy with the private marker, an example
\* has bound a name, and a check has evaluated its texts in copies of the
\* namespace
C26_Witness ==
    /\ cpc = "run"
    /\ nrun = 2
    /\ kwargs["rndm_markers"] = "given"
    /\ kwargs["default_namespace"] = "given"
    /\ "# _ignore" \in heap[refs.checker]
    /\ "a" \in heap[refs.test_globs]
    /\ refs.ns # 0
    /\ \E id \in 1..Len(heap) : "__builtins__" \in heap[id]
    /\ heap[refs.rndm_markers] = {"# tol"}
    /\ heap[refs.default_namespace] = {"np"}

====
